---- MODULE Spec2Model ----
(***************************************************************************)
(* The Future primitive and the cooperative scheduler of the asyncio       *)
(* tutorial, as the tutorial's programs use them: 09_future_object.py and  *)
(* the gather over coroutines and worker threads of                        *)
(* 08_async_sync_hybrid.py.                                                *)
(*                                                                         *)
(* Time is counted in tenths of a time unit (asyncio.sleep(0.3) is 3,      *)
(* asyncio.sleep(1) is 10).  A coroutine runs one statement per step while *)
(* `cur` names its task; the loop takes no other handle until that task    *)
(* suspends or finishes, which is the single-threaded cooperative          *)
(* scheduling of the event loop.                                           *)
(***************************************************************************)
EXTENDS Integers, Sequences, FiniteSets, TLC

VARIABLES
    now,      \* loop.time()
    futs,     \* every Future created so far (its index is its identity)
    tasks,    \* every Task created so far (its index is its identity)
    ready,    \* the loop's FIFO of ready handles (loop._ready)
    timers,   \* every timer handle created by call_later (loop._scheduled)
    todo,     \* handles left to run in the current pass of the loop
    cur,      \* the task whose step is executing; 0 between handles
    log,      \* what was printed and which callbacks ran, in order
    phase,    \* "run", "stopping", "shutdown", "closed"
    threads,  \* the calls handed to the default executor's worker threads
    entry,    \* the root computation handed to asyncio.run
    cfg       \* the arguments of the run (delays, data, the random choice)

vars ==
    <<now, futs, tasks, ready, timers, todo, cur, log, phase, threads, entry,
      cfg>>

(***************************************************************************)
(* The state as one record, so that a statement is a function from state   *)
(* to state and a step can compose several library calls.                  *)
(***************************************************************************)
St ==
    [now |-> now, futs |-> futs, tasks |-> tasks, ready |-> ready,
     timers |-> timers, todo |-> todo, cur |-> cur, log |-> log,
     phase |-> phase, threads |-> threads]

Commit(S) ==
    /\ now' = S.now
    /\ futs' = S.futs
    /\ tasks' = S.tasks
    /\ ready' = S.ready
    /\ timers' = S.timers
    /\ todo' = S.todo
    /\ cur' = S.cur
    /\ log' = S.log
    /\ phase' = S.phase
    /\ threads' = S.threads
    /\ UNCHANGED <<entry, cfg>>

\* ---------------------------------------------------------------- values

NoValue == "<none>"

\* asyncio.Future(): pending, no result, no exception, no callbacks.  `at`
\* notes the loop time at which it left the pending state.  The future
\* gather returns also has the futures it gathers, the number of them that
\* are done, and, in `results`, the list that is its result.
NewFut ==
    [state |-> "PENDING", result |-> NoValue, exc |-> "", cbs |-> <<>>,
     task |-> 0, at |-> 0, children |-> <<>>, nfinished |-> 0,
     results |-> <<>>, returnExceptions |-> FALSE, cancelRequested |-> FALSE]

\* A callback or a handle: what to run, its bound argument, the future it
\* is called with.
Cb(kind, arg) == [kind |-> kind, arg |-> arg, fut |-> 0, tm |-> 0]

\* A coroutine frame: the function, the statement it is at, where it goes on
\* after the await it is suspended in, and its local variables.
Frame(fn, pc) ==
    [fn |-> fn, pc |-> pc, next |-> "", f |-> 0, w |-> 0, t |-> 0, h |-> 0,
     i |-> 0,
     data |-> "", delay |-> 0, fs |-> <<>>, ret |-> NoValue, pend |-> "",
     results |-> <<>>]

NewTask(fid, fr) ==
    [fut |-> fid, stack |-> <<fr>>, waiter |-> 0, mustCancel |-> FALSE,
     ncancel |-> 0, exc |-> ""]

\* One line of output: the text, the future (or index) it is about, the
\* value it shows, and the loop time at which it was printed.
Ev(ev, a, v, at) == [ev |-> ev, a |-> a, v |-> v, at |-> at]

SayV(S, ev, a, v) == [S EXCEPT !.log = Append(@, Ev(ev, a, v, S.now))]

Say(S, ev, a) == SayV(S, ev, a, "")

\* ------------------------------------------------------------ exceptions

\* An exception raised by a library call: into the running coroutine, or,
\* from a plain callback, to the loop's exception handler (which logs it).
Raise(S, e) ==
    IF S.cur # 0
    THEN [S EXCEPT !.tasks[S.cur].exc = e]
    ELSE Say(S, "callback raised " \o e, 0)

Raised(S) == S.cur # 0 /\ S.tasks[S.cur].exc # ""

\* A print of a function fails (standard output is gone) at the points
\* cfg.fail names: "<name>:start" for the first print of the function
\* called with that name, "<name>:finish" for its last.
Fails(name, at) == (name \o ":" \o at) \in cfg.fail

\* print(...) of the function called with that name: the line is written,
\* or OSError is raised where cfg.fail says so.
PrintOrRaise(S, name, at, ev, a, v) ==
    IF Fails(name, at) THEN Raise(S, "OSError") ELSE SayV(S, ev, a, v)

\* ------------------------------------------------------------ the Future

Done(S, f) == S.futs[f].state # "PENDING"

Cancelled(S, f) == S.futs[f].state = "CANCELLED"

\* A call_soon that puts the callback at the head of the ready queue.
CallSoonAtFront(S, cb, f) == [S EXCEPT !.ready = <<[cb EXCEPT !.fut = f]>> \o @]

\* loop.call_soon(callback, future): appended, never reordered.
CallSoon(S, cb, f) == [S EXCEPT !.ready = Append(@, [cb EXCEPT !.fut = f])]

\* Future.__schedule_callbacks: every registered callback is queued on the
\* loop in registration order, and the list is emptied.
ScheduleCallbacks(S, f) ==
    [S EXCEPT !.ready = @ \o [k \in 1..Len(S.futs[f].cbs) |->
                                 [S.futs[f].cbs[k] EXCEPT !.fut = f]],
              !.futs[f].cbs = <<>>]

\* A set_result that overwrites a terminal Future instead of faulting: the
\* behaviour C1 rules out.
SetResultAgain(S, f, v) ==
    ScheduleCallbacks(
        [S EXCEPT !.futs[f].state = "FINISHED", !.futs[f].result = v,
                  !.futs[f].at = S.now], f)

\* A set_result that calls the done-callbacks itself, before it returns,
\* instead of handing them to the loop: the behaviour C25 rules out.
SetResultCallingBack(S, f, v) ==
    IF S.futs[f].state # "PENDING"
    THEN Raise(S, "InvalidStateError")
    ELSE LET S1 == [S EXCEPT !.futs[f].state = "FINISHED",
                             !.futs[f].result = v, !.futs[f].at = S.now]
         IN  IF \E k \in 1..Len(S.futs[f].cbs) :
                    S.futs[f].cbs[k].kind = "future_callback"
             THEN SayV([S1 EXCEPT !.futs[f].cbs = <<>>],
                       "Callback executed - Result", f, v)
             ELSE ScheduleCallbacks(S1, f)

\* future.set_result(value)
SetResult(S, f, v) ==
    IF S.futs[f].state # "PENDING"
    THEN Raise(S, "InvalidStateError")
    ELSE ScheduleCallbacks(
             [S EXCEPT !.futs[f].state = "FINISHED", !.futs[f].result = v,
                       !.futs[f].at = S.now], f)

\* future.set_exception(exception)
SetException(S, f, e) ==
    IF S.futs[f].state # "PENDING"
    THEN Raise(S, "InvalidStateError")
    ELSE ScheduleCallbacks(
             [S EXCEPT !.futs[f].state = "FINISHED", !.futs[f].exc = e,
                       !.futs[f].at = S.now], f)

\* A cancel that cancels a Future in whatever state it is: the behaviour C9
\* rules out.
CancelFutureAnyState(S, f) ==
    ScheduleCallbacks([S EXCEPT !.futs[f].state = "CANCELLED",
                                !.futs[f].at = S.now], f)

\* Future.cancel() of a plain Future: False (and nothing changes) unless it
\* is pending.
CancelFuture(S, f) ==
    IF S.futs[f].state # "PENDING"
    THEN S
    ELSE ScheduleCallbacks([S EXCEPT !.futs[f].state = "CANCELLED",
                                     !.futs[f].at = S.now], f)

\* An add_done_callback that only ever appends to the list, so that a
\* callback registered on a terminal Future never runs: the behaviour C2
\* rules out.
AddDoneCallbackAppendOnly(S, f, cb) ==
    [S EXCEPT !.futs[f].cbs = Append(@, cb)]

\* future.add_done_callback(callback)
AddDoneCallback(S, f, cb) ==
    IF S.futs[f].state # "PENDING"
    THEN CallSoon(S, cb, f)
    ELSE [S EXCEPT !.futs[f].cbs = Append(@, cb)]

\* Future.remove_done_callback(callback)
RemoveDoneCallback(S, f, cb) ==
    [S EXCEPT !.futs[f].cbs = SelectSeq(@, LAMBDA c : c # cb)]

\* A result() that never raises the stored exception: the behaviour C3
\* rules out.
ResultRaisesNothing(S, f) ==
    CASE S.futs[f].state = "CANCELLED" -> "CancelledError"
      [] S.futs[f].state = "PENDING" -> "InvalidStateError"
      [] OTHER -> ""

\* What future.result() raises ("" when it returns the stored result).
ResultRaises(S, f) ==
    CASE S.futs[f].state = "CANCELLED" -> "CancelledError"
      [] S.futs[f].state = "PENDING" -> "InvalidStateError"
      [] OTHER -> S.futs[f].exc

\* A result() that moves the stored value out of the Future: the first
\* reader gets it, a later reader finds nothing.
ResultValueMovedOut(S, f) ==
    IF \E k \in 1..Len(S.log) :
           /\ S.log[k].ev \in {"returned", "Main thread - Result",
                                "Callback executed - Result"}
           /\ S.log[k].a = f
    THEN NoValue
    ELSE S.futs[f].result

\* What future.result() returns when it raises nothing.
ResultValue(S, f) == S.futs[f].result

\* -------------------------------------------------------------- the Task

\* task.cancel(): a finished task is left alone; a task suspended on a
\* future has that future cancelled (which wakes it with CancelledError);
\* otherwise the cancellation is delivered at its next step.
\* A task.cancel() that is lost: the task goes on as if nobody had asked.
CancelTaskIgnored(S, t) == S

\* A task.cancel() that ends the task on the spot, inside the call, instead
\* of leaving the cancellation for the task's next step.
CancelTaskAtOnce(S, t) ==
    IF Done(S, S.tasks[t].fut) THEN S
    ELSE CancelFuture([S EXCEPT !.tasks[t].stack = <<>>,
                                !.tasks[t].ncancel = @ + 1],
                      S.tasks[t].fut)

RECURSIVE CancelTask(_, _)
RECURSIVE CancelChildren(_, _, _)

\* _GatheringFuture.cancel(): every input is asked to cancel, and the
\* request is remembered if any of them takes it; the outer future itself
\* is completed by the inputs' done callbacks.
CancelChildren(S, outer, k) ==
    IF k > Len(S.futs[outer].children) THEN S
    ELSE LET c  == S.futs[outer].children[k]
             S1 == IF S.futs[c].task # 0 THEN CancelTask(S, S.futs[c].task)
                   ELSE CancelFuture(S, c)
         IN  CancelChildren(
                 IF Done(S, c) THEN S1
                 ELSE [S1 EXCEPT !.futs[outer].cancelRequested = TRUE],
                 outer, k + 1)

CancelTask(S, t) ==
    LET w == S.tasks[t].waiter
        S1 == [S EXCEPT !.tasks[t].ncancel = @ + 1]
    IN  IF Done(S, S.tasks[t].fut)
        THEN S
        ELSE IF w # 0 /\ ~Done(S, w)
             THEN (CASE S.futs[w].task # 0 -> CancelTask(S1, S.futs[w].task)
                     [] S.futs[w].children # <<>> -> CancelChildren(S1, w, 1)
                     [] OTHER -> CancelFuture(S1, w))
             ELSE [S1 EXCEPT !.tasks[t].mustCancel = TRUE]

\* cancel() on any future: a Task is a Future whose cancel is task.cancel.
Cancel(S, f) ==
    IF S.futs[f].task # 0 THEN CancelTask(S, S.futs[f].task)
    ELSE CancelFuture(S, f)

\* loop.create_future()
CreateFuture(S) == [S EXCEPT !.futs = Append(@, NewFut)]

LastFut(S) == Len(S.futs)

\* asyncio.create_task(coro): the task is a new future and its first step
\* is queued with call_soon; the coroutine does not run yet.
CreateTask(S, fr) ==
    LET fid == Len(S.futs) + 1
        tid == Len(S.tasks) + 1
    IN  CallSoon([S EXCEPT !.futs = Append(@, [NewFut EXCEPT !.task = tid]),
                           !.tasks = Append(@, NewTask(fid, fr))],
                 Cb("step", tid), 0)

LastTask(S) == Len(S.tasks)

\* ------------------------------------------------------ coroutine frames

Depth(S) == Len(S.tasks[S.cur].stack)

Top(S) == S.tasks[S.cur].stack[Depth(S)]

SetTop(S, fr) == [S EXCEPT !.tasks[S.cur].stack[Depth(S)] = fr]

Goto(S, pc) == SetTop(S, [Top(S) EXCEPT !.pc = pc])

\* The statement raised nothing: go on at pc; otherwise stay, to unwind.
Then(S, pc) == IF Raised(S) THEN S ELSE Goto(S, pc)

\* `await coro(...)`: the callee runs in the caller's task; the caller
\* resumes at `next` with the callee's return value.
Call(S, next, fr) ==
    LET S1 == SetTop(S, [Top(S) EXCEPT !.next = next])
    IN  [S1 EXCEPT !.tasks[S.cur].stack = Append(@, fr)]

\* A task whose failure is raised out of the loop: an exception that ends a
\* task other than the root's fails the root's future too.
FinishTaskRaisingIntoRoot(S, v, e) ==
    LET t  == S.cur
        f  == S.tasks[t].fut
        S1 == [S EXCEPT !.tasks[t].stack = <<>>, !.tasks[t].exc = "",
                        !.tasks[t].mustCancel = FALSE, !.cur = 0]
    IN  IF e = "CancelledError" \/ (e = "" /\ S.tasks[t].mustCancel)
        THEN CancelFuture(S1, f)
        ELSE IF e # ""
        THEN (IF t # 1 /\ ~Done(S1, 1)
              THEN SetException(SetException(S1, f, e), 1, e)
              ELSE SetException(S1, f, e))
        ELSE SetResult(S1, f, v)

\* The coroutine's task finishes: its own future takes the outcome and the
\* loop is free again.
FinishTask(S, v, e) ==
    LET t  == S.cur
        f  == S.tasks[t].fut
        S1 == [S EXCEPT !.tasks[t].stack = <<>>, !.tasks[t].exc = "",
                        !.tasks[t].mustCancel = FALSE, !.cur = 0]
    IN  IF e = "CancelledError" \/ (e = "" /\ S.tasks[t].mustCancel)
        THEN CancelFuture(S1, f)
        ELSE IF e # "" THEN SetException(S1, f, e)
        ELSE SetResult(S1, f, v)

\* `return v`
Return(S, v) ==
    IF Depth(S) = 1
    THEN FinishTask(S, v, "")
    ELSE LET st == S.tasks[S.cur].stack
             d  == Len(st)
         IN  [S EXCEPT !.tasks[S.cur].stack =
                 [SubSeq(st, 1, d - 1) EXCEPT ![d - 1].ret = v,
                                              ![d - 1].pc = st[d - 1].next]]

\* An await that suspends the task whatever the state of the future, so
\* that the outcome of a terminal future arrives one pass later.
AwaitSuspending(S, f, next) ==
    LET t  == S.cur
        S1 == SetTop(S, [Top(S) EXCEPT !.next = next])
        S2 == AddDoneCallback(S1, f, Cb("wakeup", t))
        S3 == [S2 EXCEPT !.tasks[t].waiter = f, !.cur = 0]
    IN  IF S.tasks[t].mustCancel
        THEN [CancelFuture(S3, f) EXCEPT !.tasks[t].mustCancel = FALSE]
        ELSE S3

\* `await future`: an already terminal future does not suspend the task;
\* a pending one gets the task's wakeup as a done-callback and the task
\* yields to the loop.
Await(S, f, next) ==
    IF Done(S, f)
    THEN IF ResultRaises(S, f) # ""
         THEN Raise(S, ResultRaises(S, f))
         ELSE SetTop(S, [Top(S) EXCEPT !.ret = ResultValue(S, f), !.pc = next])
    ELSE LET t  == S.cur
             S1 == SetTop(S, [Top(S) EXCEPT !.next = next])
             S2 == AddDoneCallback(S1, f, Cb("wakeup", t))
             S3 == [S2 EXCEPT !.tasks[t].waiter = f, !.cur = 0]
         IN  IF S.tasks[t].mustCancel
             THEN [CancelFuture(S3, f) EXCEPT !.tasks[t].mustCancel = FALSE]
             ELSE S3

\* --------------------------------------------------------------- timers

\* A call_later whose timer is due after twice the delay: the behaviour C6
\* rules out.
CallLaterTwiceAsLate(S, delay, cb, f) ==
    [S EXCEPT !.timers = Append(@, [when |-> S.now + 2 * delay,
                                    cb |-> [cb EXCEPT !.fut = f],
                                    cancelled |-> FALSE, fired |-> FALSE,
                                    ran |-> FALSE])]

\* loop.call_later(delay, callback, future): a timer handle, due at
\* now + delay; its index is the handle.  `fired`: the loop has moved it to
\* the ready queue; `ran`: its callback has run.
CallLater(S, delay, cb, f) ==
    [S EXCEPT !.timers = Append(@, [when |-> S.now + delay,
                                    cb |-> [cb EXCEPT !.fut = f],
                                    cancelled |-> FALSE, fired |-> FALSE,
                                    ran |-> FALSE])]

LastTimer(S) == Len(S.timers)

\* A handle.cancel() that is forgotten, so that the timer stays armed: the
\* behaviour C7 rules out.
CancelTimerForgotten(S, h) == S

\* handle.cancel()
CancelTimer(S, h) == [S EXCEPT !.timers[h].cancelled = TRUE]

Live(tms) == {k \in 1..Len(tms) : ~tms[k].cancelled /\ ~tms[k].fired}

\* The timer the loop takes first: the earliest deadline, and among equal
\* deadlines the one scheduled first.
Earliest(tms, ks) ==
    CHOOSE k \in ks : \A j \in ks :
        \/ tms[k].when < tms[j].when
        \/ (tms[k].when = tms[j].when /\ k <= j)

RECURSIVE DueHandles(_, _)
DueHandles(tms, ks) ==
    IF ks = {} THEN <<>>
    ELSE LET k == Earliest(tms, ks)
         IN  <<[tms[k].cb EXCEPT !.tm = k]>> \o DueHandles(tms, ks \ {k})

\* ------------------------------------------------------- asyncio.sleep

SleepFrame(delay) == [Frame("sleep", "start") EXCEPT !.delay = delay]

\* asyncio.sleep(delay): a fresh future that a timer resolves after
\* `delay`; whatever ends the wait, the timer handle is cancelled.
SleepStep(S) ==
    LET fr == Top(S)
    IN  CASE fr.pc = "start" ->
               LET S1 == CreateFuture(S)
                   S2 == CallLater(S1, fr.delay,
                                   Cb("set_result_unless_cancelled", 0),
                                   LastFut(S1))
               IN  SetTop(S2, [fr EXCEPT !.f = LastFut(S1),
                                         !.h = LastTimer(S2), !.pc = "await"])
          [] fr.pc = "await" -> Await(S, fr.f, "finally")
          [] fr.pc = "finally" -> Return(CancelTimer(S, fr.h), fr.ret)
          [] fr.pc = "finally_exc" -> Raise(CancelTimer(S, fr.h), fr.pend)

SleepHandler(fr, e) == IF fr.pc = "await" THEN "finally_exc" ELSE ""

\* ------------------------------------------------------ asyncio.wait_for

CancelAndWaitFrame(f) == [Frame("cancel_and_wait", "start") EXCEPT !.f = f]

\* _cancel_and_wait(fut): cancel fut and wait, on a waiter of its own,
\* until fut is done.
CancelAndWaitStep(S) ==
    LET fr == Top(S)
    IN  CASE fr.pc = "start" ->
               LET S1 == CreateFuture(S)
                   w  == LastFut(S1)
                   S2 == AddDoneCallback(S1, fr.f, Cb("release_waiter", w))
               IN  SetTop(Cancel(S2, fr.f), [fr EXCEPT !.w = w, !.pc = "await"])
          [] fr.pc = "await" -> Await(S, fr.w, "finally")
          [] fr.pc = "finally" ->
               Return(RemoveDoneCallback(S, fr.f, Cb("release_waiter", fr.w)),
                      NoValue)
          [] fr.pc = "finally_exc" ->
               Raise(RemoveDoneCallback(S, fr.f, Cb("release_waiter", fr.w)),
                     fr.pend)

CancelAndWaitHandler(fr, e) == IF fr.pc = "await" THEN "finally_exc" ELSE ""

WaitForFrame(f, timeout) ==
    [Frame("wait_for", "start") EXCEPT !.f = f, !.delay = timeout]

\* asyncio.wait_for(fut, timeout) for a positive timeout: wait on a waiter
\* that both the deadline timer and fut's completion release; then return
\* fut's outcome if fut is done, and otherwise cancel fut and raise
\* TimeoutError.  The deadline timer is cancelled on every way out.
WaitForStep(S) ==
    LET fr == Top(S)
    IN  CASE fr.pc = "start" ->
               LET S1 == CreateFuture(S)
                   w  == LastFut(S1)
                   S2 == CallLater(S1, fr.delay, Cb("release_waiter", w), 0)
                   S3 == AddDoneCallback(S2, fr.f, Cb("release_waiter", w))
               IN  SetTop(S3, [fr EXCEPT !.w = w, !.h = LastTimer(S2),
                                         !.pc = "await"])
          [] fr.pc = "await" -> Await(S, fr.w, "check")
          [] fr.pc \in {"check", "cancelled"} ->
               IF Done(S, fr.f) THEN Goto(S, "result")
               ELSE Call(RemoveDoneCallback(S, fr.f,
                                            Cb("release_waiter", fr.w)),
                         IF fr.pc = "check" THEN "after_cancel" ELSE "reraise",
                         CancelAndWaitFrame(fr.f))
          [] fr.pc = "result" ->
               IF ResultRaises(S, fr.f) # ""
               THEN Raise(S, ResultRaises(S, fr.f))
               ELSE SetTop(S, [fr EXCEPT !.ret = ResultValue(S, fr.f),
                                         !.pc = "finally"])
          [] fr.pc = "after_cancel" ->
               (CASE ResultRaises(S, fr.f) = "CancelledError" ->
                        Raise(S, "TimeoutError")
                  [] ResultRaises(S, fr.f) # "" ->
                        Raise(S, ResultRaises(S, fr.f))
                  [] OTHER ->
                        SetTop(S, [fr EXCEPT !.ret = ResultValue(S, fr.f),
                                             !.pc = "finally"]))
          [] fr.pc = "reraise" -> Raise(S, "CancelledError")
          [] fr.pc = "finally" -> Return(CancelTimer(S, fr.h), fr.ret)
          [] fr.pc = "finally_exc" -> Raise(CancelTimer(S, fr.h), fr.pend)

WaitForHandler(fr, e) ==
    CASE fr.pc = "await" /\ e = "CancelledError" -> "cancelled"
      [] fr.pc \in {"await", "check", "cancelled", "result", "after_cancel",
                    "reraise"} -> "finally_exc"
      [] OTHER -> ""

WaitForTimeoutFrame(f, timeout) ==
    [Frame("wait_for_timeout", "enter") EXCEPT !.f = f, !.delay = timeout]

\* A deadline that cancels nothing when it fires, so that the wait goes on
\* past it.
OnTimeoutIgnored(S, t) == S

\* Timeout._on_timeout: the deadline cancels the task inside the timeout
\* block.
OnTimeout(S, t) == CancelTask(S, t)

\* task.uncancel()
Uncancel(S) ==
    [S EXCEPT !.tasks[S.cur].ncancel = IF @ > 0 THEN @ - 1 ELSE 0]

\* asyncio.wait_for(fut, timeout) as `async with timeout(timeout): return
\* await fut` (CPython 3.12 and later): the task awaits fut itself and the
\* deadline cancels the task; on the way out a cancellation that the
\* deadline caused becomes TimeoutError.  fr.i is task.cancelling() on entry.
WaitForTimeoutStep(S) ==
    LET fr == Top(S)
        Expiring == S.timers[fr.h].ran
        Left == IF Expiring THEN Uncancel(S) ELSE CancelTimer(S, fr.h)
    IN  CASE fr.pc = "enter" ->
               LET S1 == CallLater(S, fr.delay, Cb("on_timeout", S.cur), 0)
               IN  SetTop(S1, [fr EXCEPT !.h = LastTimer(S1),
                                         !.i = S.tasks[S.cur].ncancel,
                                         !.pc = "await"])
          [] fr.pc = "await" -> Await(S, fr.f, "exit")
          [] fr.pc = "exit" -> Return(Left, fr.ret)
          [] fr.pc = "exit_exc" ->
               IF /\ Expiring
                  /\ Left.tasks[S.cur].ncancel <= fr.i
                  /\ fr.pend = "CancelledError"
               THEN Raise(Left, "TimeoutError")
               ELSE Raise(Left, fr.pend)

WaitForTimeoutHandler(fr, e) == IF fr.pc = "await" THEN "exit_exc" ELSE ""

\* ============================================== 09_future_object.py

DefaultDelay == 30      \* async_operation(future, data, delay=3)

AsyncOperationFrame(f, data, delay) ==
    [Frame("async_operation", "sleep") EXCEPT
        !.f = f, !.data = data, !.delay = delay]

\* A producer that cancels the future instead of resolving it.
AsyncOperationStepCancelling(S) ==
    LET fr == Top(S)
    IN  CASE fr.pc = "sleep" -> Call(S, "set", SleepFrame(fr.delay))
          [] fr.pc = "set" -> Then(CancelFuture(S, fr.f), "return")
          [] fr.pc = "return" -> Return(S, NoValue)

\* async_operation(future, data, delay)
AsyncOperationStep(S) ==
    LET fr == Top(S)
    IN  CASE fr.pc = "sleep" -> Call(S, "set", SleepFrame(fr.delay))
          [] fr.pc = "set" ->
               Then(CASE fr.data = "success" ->
                           SetResult(S, fr.f, "Operation succeeded")
                      [] fr.data = "error" ->
                           SetException(S, fr.f, "RuntimeError")
                      [] OTHER ->
                           SetResult(S, fr.f,
                               "Operation completed with data: " \o fr.data),
                    "return")
          [] fr.pc = "return" -> Return(S, NoValue)

\* future_callback(future): reads the result; `except Exception` does not
\* catch CancelledError.
FutureCallback(S, f) ==
    CASE ResultRaises(S, f) = "" ->
            SayV(S, "Callback executed - Result", f, ResultValue(S, f))
      [] ResultRaises(S, f) = "CancelledError" -> Raise(S, "CancelledError")
      [] OTHER ->
            SayV(S, "Callback executed - Exception", f, ResultRaises(S, f))

\* basic_future_example()
BasicFutureExampleStep(S) ==
    LET fr == Top(S)
    IN  CASE fr.pc = "banner" -> Goto(Say(S, "=== Basic Future Example ===", 0), "create")
          [] fr.pc = "create" ->
               LET S1 == CreateFuture(S)
               IN  SetTop(S1, [fr EXCEPT !.f = LastFut(S1), !.pc = "add_cb"])
          [] fr.pc = "add_cb" ->
               Goto(AddDoneCallback(S, fr.f, Cb("future_callback", 0)),
                    "start")
          [] fr.pc = "start" ->
               Call(Say(S, "Starting async operation...", fr.f), "check",
                    AsyncOperationFrame(fr.f, "success", DefaultDelay))
          [] fr.pc = "check" ->
               IF ~Done(S, fr.f) THEN Goto(S, "return")
               ELSE (CASE ResultRaises(S, fr.f) = "" ->
                            Goto(SayV(S, "Main thread - Result", fr.f,
                                      ResultValue(S, fr.f)), "return")
                       [] ResultRaises(S, fr.f) = "CancelledError" ->
                            Raise(S, "CancelledError")
                       [] OTHER ->
                            Goto(SayV(S, "Main thread - Exception", fr.f,
                                      ResultRaises(S, fr.f)), "return"))
          [] fr.pc = "return" -> Return(S, NoValue)

\* Operations that complete in the order of their indices.
OperationsInIndexOrder ==
    << [data |-> "success", delay |-> 10],
       [data |-> "custom_data", delay |-> 20],
       [data |-> "error", delay |-> 40],
       [data |-> "another_success", delay |-> 70] >>

\* The (data, delay) pairs of multiple_futures_example.
Operations ==
    << [data |-> "success", delay |-> 20],
       [data |-> "custom_data", delay |-> 40],
       [data |-> "error", delay |-> 10],
       [data |-> "another_success", delay |-> 70] >>

\* multiple_futures_example(); fr.i counts from 0 as enumerate does.
MultipleFuturesExampleStep(S) ==
    LET fr == Top(S)
    IN  CASE fr.pc = "banner" -> Goto(Say(S, "=== Multiple Futures Example ===", 0), "for")
          [] fr.pc = "for" ->
               IF fr.i = Len(Operations)
               THEN SetTop(Say(S, "All operations started...", 0),
                           [fr EXCEPT !.i = 0, !.pc = "await"])
               ELSE LET op == Operations[fr.i + 1]
                        S1 == CreateFuture(S)
                        f  == LastFut(S1)
                        S2 == AddDoneCallback(S1, f, Cb("lambda", fr.i))
                        S3 == CreateTask(S2,
                                  AsyncOperationFrame(f, op.data, op.delay))
                    IN  SetTop(S3, [fr EXCEPT !.fs = Append(@, f),
                                              !.i = @ + 1])
          [] fr.pc = "await" ->
               IF fr.i = Len(fr.fs) THEN Goto(S, "return")
               ELSE Await(S, fr.fs[fr.i + 1], "print")
          [] fr.pc = "print" ->
               SetTop(SayV(S, "Future i: result", fr.i, fr.ret),
                      [fr EXCEPT !.i = @ + 1, !.pc = "await"])
          [] fr.pc = "except" ->
               SetTop(SayV(S, "Future i failed", fr.i, fr.pend),
                      [fr EXCEPT !.i = @ + 1, !.pc = "await"])
          [] fr.pc = "return" -> Return(S, NoValue)

\* `except Exception`: every exception of the model but CancelledError.
IsException(e) == e # "" /\ e # "CancelledError"

MultipleFuturesExampleHandler(fr, e) ==
    IF fr.pc = "await" /\ IsException(e) THEN "except" ELSE ""

SlowDelay == 60         \* async_operation(future, "slow_result", 6)

Timeout == 30           \* asyncio.wait_for(future, timeout=3.0)

\* future_with_timeout_example(); the producer's data and delay, the
\* timeout and the wait_for of the interpreter are the run's arguments.
FutureWithTimeoutExampleStep(S, c) ==
    LET fr == Top(S)
    IN  CASE fr.pc = "banner" -> Goto(Say(S, "=== Future with Timeout Example ===", 0), "create")
          [] fr.pc = "create" ->
               LET S1 == CreateFuture(S)
               IN  SetTop(S1, [fr EXCEPT !.f = LastFut(S1), !.pc = "task"])
          [] fr.pc = "task" ->
               LET S1 == CreateTask(S,
                             AsyncOperationFrame(fr.f, c.data, c.delay))
               IN  SetTop(S1, [fr EXCEPT !.t = LastTask(S1),
                                         !.pc = "wait_for"])
          [] fr.pc = "wait_for" ->
               Call(S, "print",
                    IF c.impl = "waiter" THEN WaitForFrame(fr.f, c.timeout)
                    ELSE WaitForTimeoutFrame(fr.f, c.timeout))
          [] fr.pc = "print" -> Goto(SayV(S, "Result", fr.f, fr.ret), "return")
          [] fr.pc = "except" ->
               Goto(CancelTask(Say(S, "Operation timed out!", fr.f), fr.t),
                    "return")
          [] fr.pc = "return" -> Return(S, NoValue)

FutureWithTimeoutExampleHandler(fr, e) ==
    IF fr.pc = "wait_for" /\ e = "TimeoutError" THEN "except" ELSE ""

MonitorDelay == 10      \* async_operation(future, "monitored_result", 1)

PollDelay == 3          \* await asyncio.sleep(0.3)

Bool(b) == IF b THEN "True" ELSE "False"

\* future_state_monitoring()
FutureStateMonitoringStep(S) ==
    LET fr == Top(S)
    IN  CASE fr.pc = "banner" -> Goto(Say(S, "=== Future State Monitoring ===", 0), "create")
          [] fr.pc = "create" ->
               LET S1 == CreateFuture(S)
               IN  SetTop(S1, [fr EXCEPT !.f = LastFut(S1), !.pc = "report"])
          [] fr.pc = "report" ->
               Goto(SayV(SayV(S, "Future done", fr.f, Bool(Done(S, fr.f))),
                         "Future cancelled", fr.f, Bool(Cancelled(S, fr.f))),
                    "task")
          [] fr.pc = "task" ->
               Goto(CreateTask(S, AsyncOperationFrame(
                                      fr.f, "monitored_result", MonitorDelay)),
                    "while")
          [] fr.pc = "while" ->
               IF Done(S, fr.f) THEN Goto(S, "done")
               ELSE Call(Say(S, "Future still pending...", fr.f), "while",
                         SleepFrame(PollDelay))
          [] fr.pc = "done" ->
               LET S1 == SayV(S, "Future done", fr.f, Bool(Done(S, fr.f)))
               IN  IF ResultRaises(S, fr.f) # ""
                   THEN Raise(S1, ResultRaises(S, fr.f))
                   ELSE Goto(SayV(S1, "Result", fr.f, ResultValue(S, fr.f)),
                             "return")
          [] fr.pc = "return" -> Return(S, NoValue)

CancelDelay == 30       \* async_operation(future, "will_be_cancelled", 3)

CancelWait == 10        \* await asyncio.sleep(1)

\* cancellation_example()
CancellationExampleStep(S) ==
    LET fr == Top(S)
    IN  CASE fr.pc = "banner" -> Goto(Say(S, "=== Future Cancellation Example ===", 0), "create")
          [] fr.pc = "create" ->
               LET S1 == CreateFuture(S)
               IN  SetTop(S1, [fr EXCEPT !.f = LastFut(S1), !.pc = "task"])
          [] fr.pc = "task" ->
               LET S1 == CreateTask(S, AsyncOperationFrame(
                                           fr.f, "will_be_cancelled",
                                           CancelDelay))
               IN  SetTop(S1, [fr EXCEPT !.t = LastTask(S1), !.pc = "sleep"])
          [] fr.pc = "sleep" -> Call(S, "if", SleepFrame(CancelWait))
          [] fr.pc = "if" ->
               IF ~Done(S, fr.f) THEN Goto(S, "cancel") ELSE Goto(S, "return")
          [] fr.pc = "cancel" ->
               Goto(CancelTask(Say(S, "Cancelling the future...", fr.f), fr.t),
                    "await")
          [] fr.pc = "await" -> Await(S, fr.f, "return")
          [] fr.pc = "except" ->
               Goto(Say(S, "Future was cancelled", fr.f), "return")
          [] fr.pc = "return" -> Return(S, NoValue)

CancellationExampleHandler(fr, e) ==
    IF fr.pc = "await" /\ e = "CancelledError" THEN "except" ELSE ""

\* manual_future_control(); `choice` is what random.choice returned.
ManualFutureControlStep(S, choice) ==
    LET fr == Top(S)
    IN  CASE fr.pc = "banner" -> Goto(Say(S, "=== Manual Future Control ===", 0), "create")
          [] fr.pc = "create" ->
               LET S1 == CreateFuture(S)
               IN  SetTop(S1, [fr EXCEPT !.f = LastFut(S1), !.pc = "choice"])
          [] fr.pc = "choice" ->
               IF choice
               THEN Then(SetResult(Say(S, "Setting successful result...", fr.f),
                                   fr.f, "Manually set success!"), "await")
               ELSE Then(SetException(Say(S, "Setting exception...", fr.f),
                                      fr.f, "ValueError"), "await")
          [] fr.pc = "await" -> Await(S, fr.f, "print")
          [] fr.pc = "print" ->
               Goto(SayV(S, "Manual result", fr.f, fr.ret), "return")
          [] fr.pc = "except" ->
               Goto(SayV(S, "Manual exception", fr.f, fr.pend), "return")
          [] fr.pc = "return" -> Return(S, NoValue)

ManualFutureControlHandler(fr, e) ==
    IF fr.pc = "await" /\ IsException(e) THEN "except" ELSE ""

\* The six examples main awaits, in its order.
Examples ==
    << "basic_future_example", "multiple_futures_example",
       "future_with_timeout_example", "future_state_monitoring",
       "cancellation_example", "manual_future_control" >>

FirstPc(fn) ==
    CASE fn = "main" -> "example"
      [] fn \in {"hybrid_main", "concurrent_main", "say_hello_async_basic",
                  "thread_executor_client", "web_main", "read_all_async",
                  "serve", "start_jobs_request",
                  "demonstrate_executor_types"} ->
            "start"
      [] fn = "future_client" -> "create"
      [] OTHER -> "banner"

\* main(): awaits the examples one after the other; between two examples
\* input() blocks the whole thread for `wait`, during which the loop's
\* clock runs on.
MainStep(S, wait) ==
    LET fr == Top(S)
    IN  CASE fr.pc = "example" ->
               Call(S, IF fr.i + 1 = Len(Examples) THEN "completed"
                       ELSE "input",
                    Frame(Examples[fr.i + 1], FirstPc(Examples[fr.i + 1])))
          [] fr.pc = "input" ->
               SetTop([Say(S, "Press Enter to continue", fr.i)
                          EXCEPT !.now = @ + wait],
                      [fr EXCEPT !.i = @ + 1, !.pc = "example"])
          [] fr.pc = "completed" ->
               Goto(Say(S, "All Future examples completed!", 0), "return")
          [] fr.pc = "return" -> Return(S, NoValue)

\* ============================================ 08_async_sync_hybrid.py

\* ThreadPoolExecutor(max_workers=2)
MaxWorkers == 2

\* The workers of the default executor, min(32, os.cpu_count() + 4): five
\* on a machine with one processor.
DefaultMaxWorkers == 5

\* Every pool as large as the default executor.
PoolSizeOfDefault(pool) == DefaultMaxWorkers

PoolSize(pool) == IF pool = "default" THEN DefaultMaxWorkers ELSE MaxWorkers

\* A submission that always goes to the first pool of
\* demonstrate_executor_types, whichever executor is named.
SubmitToThreadExecutor(S, pool, fn, name, duration) ==
    LET S1 == CreateFuture(S)
        S2 == [S1 EXCEPT !.threads =
                 Append(@, [fn |-> fn, name |-> name, duration |-> duration,
                            fut |-> LastFut(S1), pool |-> "thread_executor",
                            state |-> "queued", due |-> 0,
                            result |-> NoValue, exc |-> ""])]
    IN  AddDoneCallback(S2, LastFut(S1),
                        Cb("call_check_cancel", Len(S2.threads)))

\* loop.run_in_executor(executor, func, *args): executor.submit puts the
\* call in the pool's queue, and wrap_future returns a Future of the loop
\* chained to it: the loop completes that Future once the call has ended,
\* and a cancellation of that Future is passed on to the queued call.
Submit(S, pool, fn, name, duration) ==
    LET S1 == CreateFuture(S)
        S2 == [S1 EXCEPT !.threads =
                 Append(@, [fn |-> fn, name |-> name, duration |-> duration,
                            fut |-> LastFut(S1), pool |-> pool,
                            state |-> "queued", due |-> 0,
                            result |-> NoValue, exc |-> ""])]
    IN  AddDoneCallback(S2, LastFut(S1),
                        Cb("call_check_cancel", Len(S2.threads)))

\* A run_in_executor that calls the function in the loop's own thread,
\* which is blocked for the duration, and returns a finished Future.
RunInExecutorBlocking(S, fn, name, duration) ==
    LET S1 == CreateFuture([S EXCEPT !.now = @ + duration])
    IN  SetResult(SayV(S1, "Finished " \o fn, 0, name), LastFut(S1),
                  "Result from " \o name)

\* loop.run_in_executor(None, func, *args): the default executor.
RunInExecutor(S, fn, name, duration) == Submit(S, "default", fn, name, duration)

\* wrap_future's _call_check_cancel, a done callback of the loop's Future:
\* if that Future was cancelled, the executor's future is cancelled too,
\* which succeeds only while the call is still queued.
CallCheckCancel(S, f, th) ==
    IF Cancelled(S, f) /\ S.threads[th].state = "queued"
    THEN [S EXCEPT !.threads[th].state = "cancelled"]
    ELSE S

\* What sync_task(name, duration) and cpu_intensive_task(n) return;
\* sum(i * i for i in range(100000)) is 333328333350000.
ThreadResult(th) ==
    CASE th.fn = "sync_task" -> "Result from " \o th.name
      [] th.fn = "background_job" -> NoValue
      [] OTHER -> "333328333350000"

\* A set_state that hands over the thread's result and drops its exception.
SetStateResultOnly(S, f, th) ==
    IF Cancelled(S, f) THEN S ELSE SetResult(S, f, S.threads[th].result)

\* A set_state that does not look whether the Future was cancelled.
SetStateUnchecked(S, f, th) ==
    IF S.threads[th].exc # "" THEN SetException(S, f, S.threads[th].exc)
    ELSE SetResult(S, f, S.threads[th].result)

\* futures._set_state, called in the loop for a finished worker thread: the
\* thread's result or exception becomes the Future's, unless the Future was
\* cancelled.
SetState(S, f, th) ==
    CASE Cancelled(S, f) -> S
      [] S.threads[th].exc # "" -> SetException(S, f, S.threads[th].exc)
      [] OTHER -> SetResult(S, f, S.threads[th].result)

\* async_wrapper(name, duration)
AsyncWrapperStep(S) ==
    LET fr == Top(S)
    IN  CASE fr.pc = "start" ->
               LET S1 == RunInExecutor(S, "sync_task", fr.data, fr.delay)
               IN  SetTop(S1, [fr EXCEPT !.f = LastFut(S1), !.pc = "await"])
          [] fr.pc = "await" -> Await(S, fr.f, "return")
          [] fr.pc = "return" -> Return(S, fr.ret)

\* async_task(name, duration)
AsyncTaskStep(S) ==
    LET fr == Top(S)
    IN  CASE fr.pc = "start" ->
               Goto(PrintOrRaise(S, fr.data, "start",
                                 "Starting async task", 0, fr.data), "sleep")
          [] fr.pc = "sleep" -> Call(S, "finished", SleepFrame(fr.delay))
          [] fr.pc = "finished" ->
               Goto(PrintOrRaise(S, fr.data, "finish",
                                 "Finished async task", 0, fr.data), "return")
          [] fr.pc = "return" -> Return(S, "Async result from " \o fr.data)

\* cpu_wrapper(n)
CpuWrapperStep(S) ==
    LET fr == Top(S)
    IN  CASE fr.pc = "start" ->
               LET S1 == RunInExecutor(S, "cpu_intensive_task", fr.data, 0)
               IN  SetTop(S1, [fr EXCEPT !.f = LastFut(S1), !.pc = "await"])
          [] fr.pc = "await" -> Await(S, fr.f, "return")
          [] fr.pc = "return" -> Return(S, fr.ret)

\* The awaitables main hands to gather, in the order it names them.
HybridInputs ==
    << [fn |-> "async_wrapper", name |-> "Sync-1", duration |-> 20],
       [fn |-> "async_task", name |-> "Async-1", duration |-> 10],
       [fn |-> "async_wrapper", name |-> "Sync-2", duration |-> 30],
       [fn |-> "async_task", name |-> "Async-2", duration |-> 15],
       [fn |-> "cpu_wrapper", name |-> "100000", duration |-> 0] >>

\* What gather puts in its list for future f (return_exceptions=True): the
\* result, or the exception as a value.
Outcome(S, f) ==
    CASE S.futs[f].state = "CANCELLED" -> "CancelledError"
      [] S.futs[f].exc # "" -> S.futs[f].exc
      [] OTHER -> S.futs[f].result

\* A list built in the order in which the futures completed (among futures
\* done at the same time, in input order): the behaviour C10 rules out.
GatherResultsAsCompleted(S, outer) ==
    LET cs == S.futs[outer].children
        Rank(i) == 1 + Cardinality({j \in 1..Len(cs) :
                          \/ S.futs[cs[j]].at < S.futs[cs[i]].at
                          \/ S.futs[cs[j]].at = S.futs[cs[i]].at /\ j < i})
    IN  [r \in 1..Len(cs) |->
            Outcome(S, cs[CHOOSE i \in 1..Len(cs) : Rank(i) = r])]

\* The list gather returns: for each input, in input order, its outcome.
GatherResults(S, outer) ==
    [i \in 1..Len(S.futs[outer].children) |->
        Outcome(S, S.futs[outer].children[i])]

\* A done callback that completes the outer future with the list as soon
\* as any input is done.
GatherDoneCallbackFirst(S, outer, fut) ==
    LET S1 == [S EXCEPT !.futs[outer].nfinished = @ + 1]
    IN  IF Done(S1, outer) THEN S1
        ELSE [SetResult(S1, outer, "<list>") EXCEPT
                 !.futs[outer].results = GatherResults(S1, outer)]

\* A done callback that gives the outer future the first exception only
\* when all the inputs are done.
GatherDoneCallbackWaitsForAll(S, outer, fut) ==
    LET S1 == [S EXCEPT !.futs[outer].nfinished = @ + 1]
        cs == S1.futs[outer].children
        bad == {i \in 1..Len(cs) : Outcome(S1, cs[i]) \in {"OSError", "CancelledError"}}
    IN  CASE S1.futs[outer].nfinished < Len(cs) -> S1
          [] bad # {} ->
                SetException(S1, outer,
                             Outcome(S1, cs[CHOOSE i \in bad :
                                               \A j \in bad : i <= j]))
          [] OTHER ->
                [SetResult(S1, outer, "<list>") EXCEPT
                    !.futs[outer].results = GatherResults(S1, outer)]

\* gather's _done_callback(fut).  Once the outer future is done nothing
\* more happens to it.  Without return_exceptions the first input that is
\* cancelled or has raised gives the outer future its exception at once.
\* When the last of the inputs is done, the outer future gets the list
\* (CancelledError if the gather itself was asked to cancel).
GatherDoneCallback(S, outer, fut) ==
    LET S1 == [S EXCEPT !.futs[outer].nfinished = @ + 1]
    IN  CASE Done(S1, outer) -> S1
          [] ~S1.futs[outer].returnExceptions /\ Cancelled(S1, fut) ->
                SetException(S1, outer, "CancelledError")
          [] ~S1.futs[outer].returnExceptions /\ S1.futs[fut].exc # "" ->
                SetException(S1, outer, S1.futs[fut].exc)
          [] S1.futs[outer].nfinished < Len(S1.futs[outer].children) -> S1
          [] S1.futs[outer].cancelRequested ->
                SetException(S1, outer, "CancelledError")
          [] OTHER ->
                [SetResult(S1, outer, "<list>") EXCEPT
                    !.futs[outer].results = GatherResults(S1, outer)]

\* asyncio.gather(*inputs): each coroutine becomes a task, in input order,
\* each with the done callback.
RECURSIVE Gather(_, _, _, _)
Gather(S, inputs, outer, k) ==
    IF k > Len(inputs) THEN S
    ELSE LET S1 == CreateTask(S, [Frame(inputs[k].fn, "start") EXCEPT
                                     !.data = inputs[k].name,
                                     !.delay = inputs[k].duration])
             c  == S1.tasks[LastTask(S1)].fut
             S2 == AddDoneCallback(S1, c, Cb("gather_done", outer))
         IN  Gather([S2 EXCEPT !.futs[outer].children = Append(@, c)],
                    inputs, outer, k + 1)

\* main() of 08_async_sync_hybrid.py; fr.i is start_time.
HybridMainStep(S) ==
    LET fr == Top(S)
    IN  CASE fr.pc = "start" ->
               SetTop(Say(S, "=== Mixing Async and Sync: Hybrid Approach ===",
                          0),
                      [fr EXCEPT !.i = S.now, !.pc = "gather"])
          [] fr.pc = "gather" ->
               LET S0 == CreateFuture(S)
                   S1 == [S0 EXCEPT
                            !.futs[LastFut(S0)].returnExceptions = TRUE]
                   S2 == Gather(S1, HybridInputs, LastFut(S1), 1)
               IN  SetTop(S2, [fr EXCEPT !.f = LastFut(S1), !.pc = "await"])
          [] fr.pc = "await" -> Await(S, fr.f, "results")
          [] fr.pc = "results" ->
               SetTop(S, [fr EXCEPT !.results = S.futs[fr.f].results,
                                    !.h = S.now, !.i = 0, !.t = fr.i,
                                    !.pc = "for"])
          [] fr.pc = "for" ->
               IF fr.i = Len(fr.results) THEN Goto(S, "total")
               ELSE SetTop(SayV(S, "Task i", fr.i + 1, fr.results[fr.i + 1]),
                           [fr EXCEPT !.i = @ + 1])
          [] fr.pc = "total" ->
               Goto(Say(S, "Total time", fr.h - fr.t), "return")
          [] fr.pc = "return" -> Return(S, NoValue)

\* ------------------------------------------- 03_hello_async_concurrent.py

\* The two coroutines handed to gather in the other order.
ConcurrentInputsSwapped ==
    << [fn |-> "do_something_else", name |-> "do_something_else",
        duration |-> 20],
       [fn |-> "say_hello_async", name |-> "say_hello_async",
        duration |-> 40] >>

\* The coroutines main of 03_hello_async_concurrent.py hands to gather, in
\* the order it names them, with the time each sleeps.
ConcurrentInputs ==
    << [fn |-> "say_hello_async", name |-> "say_hello_async",
        duration |-> 40],
       [fn |-> "do_something_else", name |-> "do_something_else",
        duration |-> 20] >>

\* ============================================ the Future's calls, freely

MaxCalls == 4

\* The calls the examples make on a Future and around it: set_result,
\* set_exception, cancel, add_done_callback, result, await, starting a
\* producer task for it, and sleeping.
ClientOps ==
    {"set_result", "set_exception", "cancel", "add_done_callback", "result",
     "await", "create_task success", "create_task error", "sleep"}

\* The value the i-th call stores, so that two set_result calls differ.
Value(i) == <<"first", "second", "third", "fourth", "fifth", "sixth">>[i]

\* A client of one Future that makes up to MaxCalls of the examples' calls
\* on it, in any order, each in a try block that reports what was raised.
\* fr.i counts the calls made; the i-th registered callback is lambda i.
FutureClientStep(S, op) ==
    LET fr == Top(S)
        i  == fr.i + 1
        f  == fr.f
        S0 == SetTop(S, [fr EXCEPT !.i = i])
    IN  CASE fr.pc = "create" ->
               LET S1 == CreateFuture(S)
               IN  SetTop(Say(S1, "Future()", LastFut(S1)),
                          [fr EXCEPT !.f = LastFut(S1), !.pc = "call"])
          [] fr.pc = "call" /\ fr.i >= MaxCalls -> Goto(S, "return")
          [] fr.pc = "call" /\ fr.i < MaxCalls ->
               (CASE op = "set_result" ->
                       SetResult(Say(S0, "set_result()", f), f, Value(i))
                 [] op = "set_exception" ->
                       SetException(Say(S0, "set_exception()", f), f,
                                    "ValueError")
                 [] op = "cancel" ->
                       Cancel(SayV(S0, "cancel()", f, Bool(~Done(S, f))), f)
                 [] op = "add_done_callback" ->
                       AddDoneCallback(Say(S0, "add_done_callback()", i), f,
                                       Cb("lambda", i))
                 [] op = "result" ->
                       IF ResultRaises(S, f) # ""
                       THEN Raise(Say(S0, "result()", f), ResultRaises(S, f))
                       ELSE SayV(Say(S0, "result()", f), "returned", f,
                                 ResultValue(S, f))
                 [] op = "await" -> Goto(S0, "await")
                 [] op = "create_task success" ->
                       CreateTask(S0, AsyncOperationFrame(f, "success",
                                                          DefaultDelay))
                 [] op = "create_task error" ->
                       CreateTask(S0, AsyncOperationFrame(f, "error",
                                                          DefaultDelay))
                 [] op = "sleep" -> Call(S0, "call", SleepFrame(PollDelay)))
          [] fr.pc = "await" -> Await(S, f, "print")
          [] fr.pc = "print" ->
               Goto(SayV(S, "await returned", f, fr.ret), "call")
          [] fr.pc = "await_except" ->
               Goto(SayV(S, "await raised", f, fr.pend), "call")
          [] fr.pc = "except" -> Goto(SayV(S, "raised", f, fr.pend), "call")
          [] fr.pc = "return" -> Return(S, NoValue)

FutureClientHandler(fr, e) ==
    CASE fr.pc = "call" -> "except"
      [] fr.pc = "await" -> "await_except"
      [] OTHER -> ""

\* ========================================================= the event loop

\* The handlers when fetch_async, read_file_async, fetch and
\* read_file_sync have no `except` clause: the error of the request or of
\* the read leaves the function.
HandlerWithoutExceptException(fr, e) ==
    CASE fr.fn = "sleep" -> SleepHandler(fr, e)
      [] fr.fn = "cancel_and_wait" -> CancelAndWaitHandler(fr, e)
      [] fr.fn = "wait_for" -> WaitForHandler(fr, e)
      [] fr.fn = "wait_for_timeout" -> WaitForTimeoutHandler(fr, e)
      [] fr.fn = "multiple_futures_example" ->
            MultipleFuturesExampleHandler(fr, e)
      [] fr.fn = "future_with_timeout_example" ->
            FutureWithTimeoutExampleHandler(fr, e)
      [] fr.fn = "cancellation_example" -> CancellationExampleHandler(fr, e)
      [] fr.fn = "manual_future_control" -> ManualFutureControlHandler(fr, e)
      [] fr.fn = "future_client" -> FutureClientHandler(fr, e)
      [] fr.fn = "thread_executor_client" /\ fr.pc = "await" -> "await_except"
      [] fr.fn = "web_main" /\ fr.pc = "await" -> "aexit_raise"
      [] fr.fn = "demonstrate_executor_types" /\ fr.pc = "thread_await" ->
            "thread_exit_raise"
      [] fr.fn = "demonstrate_executor_types" /\ fr.pc = "process_await" ->
            "process_exit_raise"
      [] OTHER -> ""

\* The `except` or `finally` block, if any, that takes exception e raised
\* at the frame's current statement.
Handler(fr, e) ==
    CASE fr.fn = "sleep" -> SleepHandler(fr, e)
      [] fr.fn = "cancel_and_wait" -> CancelAndWaitHandler(fr, e)
      [] fr.fn = "wait_for" -> WaitForHandler(fr, e)
      [] fr.fn = "wait_for_timeout" -> WaitForTimeoutHandler(fr, e)
      [] fr.fn = "multiple_futures_example" ->
            MultipleFuturesExampleHandler(fr, e)
      [] fr.fn = "future_with_timeout_example" ->
            FutureWithTimeoutExampleHandler(fr, e)
      [] fr.fn = "cancellation_example" -> CancellationExampleHandler(fr, e)
      [] fr.fn = "manual_future_control" -> ManualFutureControlHandler(fr, e)
      [] fr.fn = "future_client" -> FutureClientHandler(fr, e)
      [] fr.fn = "thread_executor_client" /\ fr.pc = "await" -> "await_except"
      [] fr.fn \in {"fetch_async", "read_file_async"}
            /\ fr.pc \in {"io", "completed"} /\ e # "CancelledError" ->
            "except"
      [] fr.fn = "fetch" /\ fr.pc = "get" /\ e = "RequestException" ->
            "except"
      [] fr.fn = "read_file_sync" /\ fr.pc = "read"
            /\ e # "CancelledError" -> "except"
      [] fr.fn = "web_main" /\ fr.pc = "await" -> "aexit_raise"
      [] fr.fn = "demonstrate_executor_types" /\ fr.pc = "thread_await" ->
            "thread_exit_raise"
      [] fr.fn = "demonstrate_executor_types" /\ fr.pc = "process_await" ->
            "process_exit_raise"
      [] OTHER -> ""

\* An exception travels up the running task's frames: the innermost frame
\* with a handler takes it; with none left the task ends with it.
UnwindStep(S) ==
    LET t  == S.cur
        e  == S.tasks[t].exc
        fr == Top(S)
        h  == Handler(fr, e)
    IN  IF h # ""
        THEN [SetTop(S, [fr EXCEPT !.pc = h, !.pend = e])
                 EXCEPT !.tasks[t].exc = ""]
        ELSE IF Depth(S) = 1
        THEN FinishTask(S, NoValue, e)
        ELSE [S EXCEPT !.tasks[t].stack = SubSeq(@, 1, Len(@) - 1)]

\* Task.__step / Task.__wakeup(f): the task runs again.  A requested
\* cancellation is thrown in first; otherwise the awaited future's
\* exception is thrown in, or its result sent.
ResumeTask(S, t, f) ==
    LET S1 == [S EXCEPT !.cur = t, !.tasks[t].waiter = 0]
        fr == Top(S1)
    IN  IF S.tasks[t].mustCancel
        THEN [S1 EXCEPT !.tasks[t].mustCancel = FALSE,
                        !.tasks[t].exc = "CancelledError"]
        ELSE IF f = 0 THEN S1
        ELSE IF ResultRaises(S, f) # ""
        THEN [S1 EXCEPT !.tasks[t].exc = ResultRaises(S, f)]
        ELSE SetTop(S1, [fr EXCEPT !.ret = ResultValue(S, f), !.pc = fr.next])

\* _release_waiter(waiter)
ReleaseWaiter(S, w) == IF Done(S, w) THEN S ELSE SetResult(S, w, NoValue)

\* futures._set_result_unless_cancelled(fut, None)
SetResultUnlessCancelled(S, f) ==
    IF Cancelled(S, f) THEN S ELSE SetResult(S, f, NoValue)

\* What running handle h does.
HandleStep(S, h) ==
    CASE h.kind \in {"step", "wakeup"} -> ResumeTask(S, h.arg, h.fut)
      [] h.kind = "future_callback" -> FutureCallback(S, h.fut)
      [] h.kind = "lambda" -> Say(S, "Future i callback executed", h.arg)
      [] h.kind = "release_waiter" -> ReleaseWaiter(S, h.arg)
      [] h.kind = "on_timeout" -> OnTimeout(S, h.arg)
      [] h.kind = "set_result_unless_cancelled" ->
            SetResultUnlessCancelled(S, h.fut)
      [] h.kind = "set_state" -> SetState(S, h.fut, h.arg)
      [] h.kind = "call_check_cancel" -> CallCheckCancel(S, h.fut, h.arg)
      [] h.kind = "gather_done" -> GatherDoneCallback(S, h.arg, h.fut)
      [] h.kind = "stop" -> [S EXCEPT !.phase = "stopping"]

LoopRunning == phase \in {"run", "stopping", "shutdown"}

\* Call th is queued and a worker of its pool is there to take it: the
\* workers take the calls from the pool's queue in the order of
\* submission, so the calls a worker is executing and the calls queued
\* ahead of th leave one of the pool's workers for th.  (Which of two
\* workers that have taken their calls gets to run first is up to the
\* threads.)
CanStart(th) ==
    /\ threads[th].state = "queued"
    /\ Cardinality({k \in 1..Len(threads) :
                        /\ threads[k].pool = threads[th].pool
                        /\ \/ threads[k].state = "running"
                           \/ threads[k].state = "queued" /\ k < th})
          < PoolSize(threads[th].pool)

\* One pass of the loop begins (_run_once): with nothing ready the loop
\* sleeps until the earliest timer; the timers then due join the ready
\* queue behind what is already there, and the pass will run exactly the
\* handles ready now.  The clock may be read up to cfg.skew late (the time
\* the previous pass took, the clock's resolution).  A worker thread that
\* finishes while the loop sleeps wakes it (ThreadFinish), so the loop
\* sleeps past a thread's finishing time only if threads may lag.
RunOnce ==
    /\ LoopRunning /\ cur = 0 /\ todo = 0
    /\ phase # "stopping"
    /\ ready # <<>> \/ (Live(timers) # {} /\ phase = "run")
    /\ (ready = <<>> /\ ~cfg.lag) =>
          \A k \in 1..Len(threads) :
              \/ threads[k].state \in {"done", "cancelled"}
              \/ threads[k].state = "queued" /\ ~CanStart(k)
              \/ /\ threads[k].state = "running"
                 /\ \/ threads[k].due <= now
                    \/ \A j \in Live(timers) : threads[k].due >= timers[j].when
    /\ \E late \in 0..cfg.skew :
       LET first == timers[Earliest(timers, Live(timers))].when
           t1  == (IF ready = <<>> /\ first > now THEN first ELSE now) + late
           due == {k \in Live(timers) : timers[k].when <= t1}
       IN  /\ now' = t1
           /\ ready' = ready \o DueHandles(timers, due)
           /\ timers' = [k \in 1..Len(timers) |->
                            IF k \in due THEN [timers[k] EXCEPT !.fired = TRUE]
                            ELSE timers[k]]
           /\ todo' = Len(ready')
    /\ UNCHANGED <<futs, tasks, cur, log, phase, threads, entry, cfg>>

\* The loop runs the next handle of the pass; a cancelled timer handle is
\* skipped.
RunHandle ==
    /\ LoopRunning /\ cur = 0 /\ todo > 0
    /\ LET h  == Head(ready)
           S1 == [St EXCEPT !.ready = Tail(ready), !.todo = todo - 1]
           S2 == IF h.tm = 0 THEN S1
                 ELSE [S1 EXCEPT !.timers[h.tm].ran = TRUE]
       IN  IF h.tm # 0 /\ timers[h.tm].cancelled
           THEN Commit(S1)
           ELSE Commit(HandleStep(S2, h))

\* run_until_complete returns once the pass in which the root finished is
\* over; asyncio.run then cancels the tasks still pending and lets the loop
\* run until nothing is ready.
ExitLoop ==
    /\ phase = "stopping" /\ cur = 0 /\ todo = 0
    /\ LET RECURSIVE CancelAll(_, _)
           CancelAll(S, k) ==
               IF k > Len(S.tasks) THEN S ELSE CancelAll(CancelTask(S, k), k + 1)
       IN  Commit(CancelAll([St EXCEPT !.phase = "shutdown"], 1))

\* An asyncio.run that returns None whatever became of the root task.
CloseReturningNone ==
    /\ phase = "shutdown" /\ cur = 0 /\ todo = 0 /\ ready = <<>>
    /\ phase' = "closed"
    /\ log' = Append(log, Ev("asyncio.run returned", 0, NoValue, now))
    /\ UNCHANGED <<now, futs, tasks, ready, timers, todo, cur, threads,
                   entry, cfg>>

\* asyncio.run comes to its end: the default executor has been shut down
\* (which waits for its worker threads), the loop is closed, and the caller
\* gets what run_until_complete took from the root task, task.result(): its
\* value, or its exception raised.
Close ==
    /\ phase = "shutdown" /\ cur = 0 /\ todo = 0 /\ ready = <<>>
    /\ \A k \in 1..Len(threads) :
          threads[k].pool = "default" =>
              threads[k].state \in {"done", "cancelled"}
    /\ phase' = "closed"
    /\ log' = Append(log,
                     IF ResultRaises(St, 1) # ""
                     THEN Ev("asyncio.run raised", 0, ResultRaises(St, 1), now)
                     ELSE Ev("asyncio.run returned", 0, ResultValue(St, 1),
                             now))
    /\ UNCHANGED <<now, futs, tasks, ready, timers, todo, cur, threads,
                   entry, cfg>>

Running(fn) ==
    /\ cur # 0
    /\ tasks[cur].exc = ""
    /\ tasks[cur].stack[Len(tasks[cur].stack)].fn = fn

Unwind == cur # 0 /\ tasks[cur].exc # "" /\ Commit(UnwindStep(St))

Sleep == Running("sleep") /\ Commit(SleepStep(St))

WaitFor == Running("wait_for") /\ Commit(WaitForStep(St))

WaitForTimeout ==
    Running("wait_for_timeout") /\ Commit(WaitForTimeoutStep(St))

CancelAndWait == Running("cancel_and_wait") /\ Commit(CancelAndWaitStep(St))

AsyncOperation == Running("async_operation") /\ Commit(AsyncOperationStep(St))

BasicFutureExample ==
    Running("basic_future_example") /\ Commit(BasicFutureExampleStep(St))

MultipleFuturesExample ==
    Running("multiple_futures_example")
        /\ Commit(MultipleFuturesExampleStep(St))

FutureWithTimeoutExample ==
    Running("future_with_timeout_example")
        /\ Commit(FutureWithTimeoutExampleStep(St, cfg))

FutureStateMonitoring ==
    Running("future_state_monitoring") /\ Commit(FutureStateMonitoringStep(St))

CancellationExample ==
    Running("cancellation_example") /\ Commit(CancellationExampleStep(St))

ManualFutureControl ==
    /\ Running("manual_future_control")
    /\ \E choice \in BOOLEAN : Commit(ManualFutureControlStep(St, choice))

FutureClient ==
    /\ Running("future_client")
    /\ \E op \in ClientOps : Commit(FutureClientStep(St, op))

\* The time cpu_intensive_task(100000) may take: none to speak of, as long
\* as Async-1 sleeps, or longer than every other input but Sync-2.
CpuDurations == {0, 10, 25}

\* A worker thread that completes the loop's Future itself.
SetStateFromWorker(S, th) == SetState(S, S.threads[th].fut, th)

\* What a worker thread hands to the loop when its call has ended:
\* loop.call_soon_threadsafe(_set_state, ...), which appends the handle to
\* the loop's ready queue from the worker thread and wakes the loop.
CallSoonThreadsafe(S, th) ==
    [S EXCEPT !.ready = Append(@, [Cb("set_state", th) EXCEPT
                                     !.fut = S.threads[th].fut])]

\* An idle worker thread of the pool takes the next call of the pool's
\* queue: the function prints its first line and will be busy
\* (time.sleep(duration), or the computation) for its duration.  If that
\* print raises, the call has ended with the exception.
ThreadStart ==
    \E th \in 1..Len(threads) :
        /\ CanStart(th)
        /\ IF Fails(threads[th].name, "start")
           THEN Commit(CallSoonThreadsafe(
                    [St EXCEPT !.threads[th].state = "done",
                               !.threads[th].due = now,
                               !.threads[th].exc = "OSError"], th))
           ELSE \E d \in IF threads[th].fn = "cpu_intensive_task"
                         THEN CpuDurations ELSE {threads[th].duration} :
                    Commit([SayV(St, "Starting " \o threads[th].fn, th,
                                 threads[th].name)
                               EXCEPT !.threads[th].state = "running",
                                      !.threads[th].due = now + d])

\* The function returns (or its last print raises) in its thread, not
\* before its time is up (and not after it unless threads may lag), and
\* the executor hands the completion to the loop.  Its time is up, or the
\* loop sleeps and nothing else happens before its time is up.
ThreadFinish ==
    \E th \in 1..Len(threads) :
        /\ threads[th].state = "running"
        /\ \/ now >= threads[th].due
           \/ /\ \/ /\ phase \in {"run", "shutdown"}
                    /\ cur = 0 /\ todo = 0 /\ ready = <<>>
                    /\ \A k \in Live(timers) :
                          timers[k].when >= threads[th].due
                 \/ cur # 0 /\ Top(St).pc = "shutdown_wait"
              /\ \A k \in 1..Len(threads) :
                    \/ threads[k].state \in {"done", "cancelled"}
                    \/ threads[k].state = "queued" /\ ~CanStart(k)
                    \/ /\ threads[k].state = "running"
                       /\ threads[k].due >= threads[th].due
        /\ LET S1 == [St EXCEPT !.now = IF @ < threads[th].due
                                        THEN threads[th].due ELSE @,
                                !.threads[th].state = "done"]
               S2 == IF Fails(threads[th].name, "finish")
                     THEN [S1 EXCEPT !.threads[th].exc = "OSError"]
                     ELSE [SayV(S1, "Finished " \o threads[th].fn, th,
                                threads[th].name)
                              EXCEPT !.threads[th].result =
                                        ThreadResult(threads[th])]
           IN  Commit(CallSoonThreadsafe(S2, th))

AsyncWrapper == Running("async_wrapper") /\ Commit(AsyncWrapperStep(St))

AsyncTask == Running("async_task") /\ Commit(AsyncTaskStep(St))

CpuWrapper == Running("cpu_wrapper") /\ Commit(CpuWrapperStep(St))

HybridMain == Running("hybrid_main") /\ Commit(HybridMainStep(St))

MaxInputWait == 40

Main ==
    /\ Running("main")
    /\ \E wait \in {0, MaxInputWait} : Commit(MainStep(St, wait))

\* asyncio.run(root): the root coroutine becomes task 1, its first step is
\* queued, and the loop is told to stop when it is done.
RunInit(fn) ==
    /\ now = 0
    /\ futs = <<[NewFut EXCEPT !.task = 1, !.cbs = <<Cb("stop", 0)>>]>>
    /\ tasks = <<NewTask(1, Frame(fn, FirstPc(fn)))>>
    /\ ready = <<Cb("step", 1)>>
    /\ timers = <<>>
    /\ todo = 0
    /\ cur = 0
    /\ log = <<>>
    /\ phase = "run"
    /\ threads = <<>>
    /\ entry = fn

\* The two wait_for implementations an interpreter may bring: the one that
\* waits on a waiter future (CPython up to 3.11) and the one built on
\* timeout() (CPython 3.12 and later).
WaitForImpls == {"waiter", "timeout"}

\* The arguments the source gives future_with_timeout_example.
SourceCfg(impl) ==
    [data |-> "slow_result", delay |-> SlowDelay, timeout |-> Timeout,
     impl |-> impl, skew |-> 0, lag |-> FALSE, fail |-> {}, jobs |-> 1]

\* 09_future_object.py: asyncio.run(main()), and each example run as the
\* root computation on its own.
Init ==
    /\ \E fn \in {"main"} \cup {Examples[k] : k \in 1..Len(Examples)} :
           RunInit(fn)
    /\ \E impl \in WaitForImpls : cfg = SourceCfg(impl)

Loop == RunOnce \/ RunHandle \/ ExitLoop \/ Close \/ Unwind \/ Sleep

Next ==
    \/ Loop
    \/ WaitFor
    \/ WaitForTimeout
    \/ CancelAndWait
    \/ AsyncOperation
    \/ BasicFutureExample
    \/ MultipleFuturesExample
    \/ FutureWithTimeoutExample
    \/ FutureStateMonitoring
    \/ CancellationExample
    \/ ManualFutureControl
    \/ Main

Spec == Init /\ [][Next]_vars

\* The loop does not stop while it has something to do: a handle that is
\* ready is run, a timer that is pending comes due, a coroutine that is
\* running takes its next step.
SpecLive == Spec /\ WF_vars(Next)

\* The Future under every order of the calls made on it, and the two
\* examples that await futures they resolved or had resolved.
InitFuture ==
    /\ \E fn \in {"future_client", "manual_future_control",
                  "multiple_futures_example", "basic_future_example"} :
          RunInit(fn)
    /\ cfg = SourceCfg("waiter")

NextFuture ==
    \/ Loop
    \/ AsyncOperation
    \/ FutureClient
    \/ ManualFutureControl
    \/ MultipleFuturesExample
    \/ BasicFutureExample

SpecFuture == InitFuture /\ [][NextFuture]_vars

\* 08_async_sync_hybrid.py: asyncio.run(main()), with worker threads that
\* finish on time and with worker threads that may lag.
Init08 ==
    /\ RunInit("hybrid_main")
    /\ \E lag \in BOOLEAN : cfg = [SourceCfg("waiter") EXCEPT !.lag = lag]

Next08 ==
    \/ RunOnce \/ RunHandle \/ ExitLoop \/ Close \/ Sleep
    \/ ThreadStart
    \/ ThreadFinish
    \/ AsyncWrapper
    \/ AsyncTask
    \/ CpuWrapper
    \/ HybridMain

Spec08 == Init08 /\ [][Next08]_vars

\* asyncio.run(main()) of 08_async_sync_hybrid.py when prints may fail: at
\* most MaxFailures of the first and last prints of sync_task, async_task
\* and cpu_intensive_task raise OSError.
MaxFailures == 2

FailPoints(inputs) ==
    {inputs[i].name \o ":" \o at :
        i \in 1..Len(inputs), at \in {"start", "finish"}}

Init08Fail ==
    /\ RunInit("hybrid_main")
    /\ \E F \in SUBSET FailPoints(HybridInputs) :
          /\ Cardinality(F) <= MaxFailures
          /\ cfg = [SourceCfg("waiter") EXCEPT !.fail = F]

Next08Fail == Next08 \/ Unwind

\* say_hello_async() of 03_hello_async_concurrent.py
SayHelloAsync ==
    /\ Running("say_hello_async")
    /\ LET S == St
           fr == Top(S)
       IN  Commit(CASE fr.pc = "start" ->
                   Goto(PrintOrRaise(S, fr.data, "start",
                                     "Starting hello task...", 0, NoValue),
                        "sleep")
              [] fr.pc = "sleep" -> Call(S, "hello", SleepFrame(fr.delay))
              [] fr.pc = "hello" ->
                   Goto(PrintOrRaise(S, fr.data, "finish",
                                     "Hello, Async World!", 0, NoValue),
                        "return")
              [] fr.pc = "return" -> Return(S, NoValue))

\* do_something_else()
DoSomethingElse ==
    /\ Running("do_something_else")
    /\ LET S == St
           fr == Top(S)
       IN  Commit(CASE fr.pc = "start" ->
                   Goto(PrintOrRaise(S, fr.data, "start",
                                     "Starting another task...", 0, NoValue),
                        "sleep")
              [] fr.pc = "sleep" -> Call(S, "finished", SleepFrame(fr.delay))
              [] fr.pc = "finished" ->
                   Goto(PrintOrRaise(S, fr.data, "finish",
                                     "Finished another task!", 0, NoValue),
                        "return")
              [] fr.pc = "return" -> Return(S, NoValue))

\* main() of 03_hello_async_concurrent.py: the list gather returns is not
\* kept.
ConcurrentMain ==
    /\ Running("concurrent_main")
    /\ LET S == St
           fr == Top(S)
       IN  Commit(CASE fr.pc = "start" ->
                   Goto(PrintOrRaise(S, "main", "start",
                                     "Starting both tasks concurrently...", 0,
                                     NoValue),
                        "gather")
              [] fr.pc = "gather" ->
                   LET S1 == CreateFuture(S)
                       S2 == Gather(S1, ConcurrentInputs, LastFut(S1), 1)
                   IN  SetTop(S2, [fr EXCEPT !.f = LastFut(S1), !.pc = "await"])
              [] fr.pc = "await" -> Await(S, fr.f, "completed")
              [] fr.pc = "completed" ->
                   Goto(PrintOrRaise(S, "main", "finish",
                                     "All tasks completed!", 0, NoValue),
                        "return")
              [] fr.pc = "return" -> Return(S, NoValue))

\* say_hello_async() of 02_hello_async_basic.py, the root of its run.
SayHelloAsyncBasic ==
    /\ Running("say_hello_async_basic")
    /\ LET S == St
           fr == Top(S)
       IN  Commit(CASE fr.pc = "start" ->
                   Goto(PrintOrRaise(S, "say_hello_async", "start",
                                     "Starting asynchronous hello...", 0,
                                     NoValue),
                        "sleep")
              [] fr.pc = "sleep" -> Call(S, "hello", SleepFrame(20))
              [] fr.pc = "hello" ->
                   Goto(PrintOrRaise(S, "say_hello_async", "finish",
                                     "Hello, Async World!", 0, NoValue),
                        "return")
              [] fr.pc = "return" -> Return(S, NoValue))

\* The most calls the client hands to the thread executor.
MaxJobs == 3

\* demonstrate_executor_types() of 08_async_sync_hybrid.py.  Each `with`
\* block creates its pool, submits one job with run_in_executor, awaits
\* it, prints the result (logged with the number of the job) and, on
\* leaving the block (also when the await raised), shuts the pool down,
\* which waits for the pool's jobs.
DemonstrateExecutorTypes ==
    /\ Running("demonstrate_executor_types")
    /\ LET S  == St
           fr == Top(S)
           Idle(pool) == \A k \in 1..Len(threads) :
                            threads[k].pool = pool =>
                                threads[k].state \in {"done", "cancelled"}
       IN  CASE fr.pc = "start" ->
                  Commit(Goto(Say(S, "=== Different Executor Types ===", 0),
                              "thread_open"))
             [] fr.pc = "thread_open" ->
                  Commit(Goto(Say(S, "ThreadPoolExecutor", "thread_executor"),
                              "thread_submit"))
             [] fr.pc = "thread_submit" ->
                  LET S1 == Submit(SayV(S, "run_in_executor",
                                        "thread_executor", "sync_task"),
                                   "thread_executor", "sync_task", "Thread",
                                   10)
                  IN  Commit(SetTop(S1, [fr EXCEPT !.f = LastFut(S1),
                                                   !.pc = "thread_await"]))
             [] fr.pc = "thread_await" ->
                  Commit(Await(S, fr.f, "thread_got"))
             [] fr.pc = "thread_got" ->
                  Commit(Goto(SayV(S, "Thread executor result",
                                   Len(S.threads), fr.ret),
                              "thread_exit"))
             [] fr.pc = "thread_exit" ->
                  /\ Idle("thread_executor")
                  /\ Commit(Goto(Say(S, "shutdown", "thread_executor"),
                                 "process_open"))
             [] fr.pc = "thread_exit_raise" ->
                  /\ Idle("thread_executor")
                  /\ Commit(Raise(Say(S, "shutdown", "thread_executor"),
                                  fr.pend))
             [] fr.pc = "process_open" ->
                  Commit(Goto(Say(S, "ProcessPoolExecutor",
                                  "process_executor"),
                              "process_submit"))
             [] fr.pc = "process_submit" ->
                  LET S1 == Submit(SayV(S, "run_in_executor",
                                        "process_executor",
                                        "cpu_intensive_task"),
                                   "process_executor", "cpu_intensive_task",
                                   "500000", 0)
                  IN  Commit(SetTop(S1, [fr EXCEPT !.f = LastFut(S1),
                                                   !.pc = "process_await"]))
             [] fr.pc = "process_await" ->
                  Commit(Await(S, fr.f, "process_got"))
             [] fr.pc = "process_got" ->
                  Commit(Goto(SayV(S, "Process executor result",
                                   Len(S.threads), fr.ret),
                              "process_exit"))
             [] fr.pc = "process_exit" ->
                  /\ Idle("process_executor")
                  /\ Commit(Goto(Say(S, "shutdown", "process_executor"),
                                 "return"))
             [] fr.pc = "process_exit_raise" ->
                  /\ Idle("process_executor")
                  /\ Commit(Raise(Say(S, "shutdown", "process_executor"),
                                  fr.pend))
             [] fr.pc = "return" -> Commit(Return(S, NoValue))

\* A client of the thread executor of demonstrate_executor_types, a pool
\* of two workers: in the `with` block it hands cfg.jobs calls of sync_task
\* (the source: one) to run_in_executor, all at once; it may then, at once
\* or after a sleep, cancel one of the Futures; it awaits the Futures one
\* by one and prints what each gave; and leaving the `with` block
\* (executor.shutdown(wait=True)) holds the loop's thread until every call
\* of the pool has ended.  fr.fs are the Futures, fr.i counts the awaits.
\* The calls take the source's 1 second, or 2 seconds (cfg.delay); a
\* cancel comes at once or after 1 or 2.5 seconds.
ThreadExecutorClient ==
    /\ Running("thread_executor_client")
    /\ LET S  == St
           fr == Top(S)
       IN  CASE fr.pc = "start" ->
                  Commit(Goto(Say(S, "=== Different Executor Types ===", 0),
                              "submit"))
             [] fr.pc = "submit" /\ Len(fr.fs) < cfg.jobs ->
                  LET S1 == Submit(S, "thread_executor", "sync_task",
                                   <<"Job-1", "Job-2", "Job-3", "Job-4">>
                                       [Len(fr.fs) + 1],
                                   cfg.delay)
                  IN  Commit(SetTop(S1, [fr EXCEPT
                                           !.fs = Append(@, LastFut(S1))]))
             [] fr.pc = "submit" /\ Len(fr.fs) >= cfg.jobs ->
                  \/ Commit(Goto(S, "await"))
                  \/ \E c \in 1..cfg.jobs, d \in {0, 10, 25} :
                        IF d = 0
                        THEN Commit(SetTop(S, [fr EXCEPT !.h = c,
                                                         !.pc = "cancel"]))
                        ELSE Commit(Call(SetTop(S, [fr EXCEPT !.h = c]),
                                         "cancel", SleepFrame(d)))
             [] fr.pc = "cancel" ->
                  Commit(Goto(Cancel(SayV(S, "cancel()", fr.h,
                                          S.threads[fr.h].state),
                                     fr.fs[fr.h]),
                              "await"))
             [] fr.pc = "await" /\ fr.i >= Len(fr.fs) ->
                  Commit(Goto(S, "shutdown_wait"))
             [] fr.pc = "await" /\ fr.i < Len(fr.fs) ->
                  Commit(Await(S, fr.fs[fr.i + 1], "got"))
             [] fr.pc = "got" ->
                  Commit(SetTop(SayV(S, "Thread executor result", fr.i + 1,
                                     fr.ret),
                                [fr EXCEPT !.i = @ + 1, !.pc = "await"]))
             [] fr.pc = "await_except" ->
                  Commit(SetTop(SayV(S, "await raised", fr.i + 1, fr.pend),
                                [fr EXCEPT !.i = @ + 1, !.pc = "await"]))
             [] fr.pc = "shutdown_wait" ->
                  /\ \A k \in 1..Len(threads) :
                        threads[k].state \in {"done", "cancelled"}
                  /\ Commit(Goto(S, "return"))
             [] fr.pc = "return" -> Commit(Return(S, NoValue))

InitPool ==
    \/ /\ RunInit("thread_executor_client")
       /\ \E n \in 1..MaxJobs, d \in {10, 20} :
             cfg = [SourceCfg("waiter") EXCEPT !.jobs = n, !.delay = d]
    \/ /\ RunInit("demonstrate_executor_types")
       /\ cfg = SourceCfg("waiter")

NextPool ==
    \/ Loop \/ ThreadStart \/ ThreadFinish
    \/ ThreadExecutorClient
    \/ DemonstrateExecutorTypes

SpecPool == InitPool /\ [][NextPool]_vars

\* The most POST /start-jobs requests the server is sent in a run.
MaxRequests == 2

\* One POST /start-jobs of 10_fastapi_background_tasks.py, as the server
\* handles it: the endpoint start_background_jobs registers the short and
\* the long job and logs; the response is sent; then the request's
\* BackgroundTasks object is called, which runs its tasks one after the
\* other, `for task in self.tasks: await task()`, each synchronous function
\* in a thread of the thread pool (run_in_threadpool), awaited before the
\* next one is taken.  fr.h is the number of the request.
StartJobsRequest ==
    /\ Running("start_jobs_request")
    /\ LET S  == St
           fr == Top(S)
           jobs == << [name |-> <<"short-1", "short-2", "short-3">>[fr.h],
                       duration |-> 30],
                      [name |-> <<"long-1", "long-2", "long-3">>[fr.h],
                       duration |-> 60] >>
       IN  Commit(
           CASE fr.pc = "start" ->
                  SetTop(Say(S, "HTTP response being sent immediately", fr.h),
                         [fr EXCEPT !.t = S.now, !.pc = "respond"])
             [] fr.pc = "respond" ->
                  SetTop(Say(S, "response sent", fr.h),
                         [fr EXCEPT !.i = 0, !.pc = "for"])
             [] fr.pc = "for" ->
                  IF fr.i = Len(jobs) THEN Goto(S, "return")
                  ELSE LET S1 == RunInExecutor(S, "background_job",
                                               jobs[fr.i + 1].name,
                                               jobs[fr.i + 1].duration)
                       IN  SetTop(S1, [fr EXCEPT !.f = LastFut(S1),
                                                 !.pc = "await"])
             [] fr.pc = "await" -> Await(S, fr.f, "next")
             [] fr.pc = "next" ->
                  SetTop(S, [fr EXCEPT !.i = @ + 1, !.pc = "for"])
             [] fr.pc = "return" -> Return(S, NoValue))

\* uvicorn.run(app) of 10_fastapi_background_tasks.py while cfg.jobs
\* requests POST /start-jobs come in, cfg.delay apart: each request is
\* handled in a task of its own; the server is stopped when the requests
\* and their background tasks are over.
Serve ==
    /\ Running("serve")
    /\ LET S  == St
           fr == Top(S)
       IN  Commit(
           CASE fr.pc = "start" ->
                  LET S1 == CreateTask(S,
                                [Frame("start_jobs_request", "start")
                                    EXCEPT !.h = fr.i + 1])
                  IN  SetTop(S1, [fr EXCEPT !.fs = Append(@, LastFut(S1)),
                                            !.i = @ + 1, !.pc = "accept"])
             [] fr.pc = "accept" ->
                  IF fr.i = cfg.jobs
                  THEN SetTop(S, [fr EXCEPT !.i = 0, !.pc = "wait"])
                  ELSE Call(S, "start", SleepFrame(cfg.delay))
             [] fr.pc = "wait" ->
                  IF fr.i = Len(fr.fs) THEN Goto(S, "return")
                  ELSE Await(S, fr.fs[fr.i + 1], "waited")
             [] fr.pc = "waited" ->
                  SetTop(S, [fr EXCEPT !.i = @ + 1, !.pc = "wait"])
             [] fr.pc = "return" -> Return(S, NoValue))

\* The server of 10_fastapi_background_tasks.py under one to MaxRequests
\* requests that arrive together, while the first one's short job runs, or
\* while its long job runs.
InitJobs ==
    /\ RunInit("serve")
    /\ \E n \in 1..MaxRequests, gap \in {0, 10, 40} :
          cfg = [SourceCfg("waiter") EXCEPT !.jobs = n, !.delay = gap]

NextJobs ==
    \/ RunOnce \/ RunHandle \/ ExitLoop \/ Close \/ Sleep
    \/ ThreadStart
    \/ ThreadFinish
    \/ StartJobsRequest
    \/ Serve

SpecJobs == InitJobs /\ [][NextJobs]_vars

\* ------------------------------------------ 12_celery_worker_tasks.py
\* The client (demo_slow_task), the worker process that executes
\* slow_calculation, and the result backend are three parties with one
\* clock.  In these runs `tasks` holds the client's position, `threads`
\* the worker's execution of the task, `futs` the backend's entry for the
\* task (what AsyncResult reads) and `timers` the time limits the worker
\* armed; cfg.jobs is `iterations`, cfg.delay the time the task waits in
\* the broker, cfg.skew how late the worker enforces a limit, and
\* cfg.overhead the time the work of an iteration takes besides its sleep.

SoftTimeLimit == 100    \* task_soft_time_limit=10

TimeLimit == 150        \* task_time_limit=15

\* sum(j ** 2 for j in range(100)), what an iteration adds to `result`.
SumOfSquares == 328350

IterationTime == 8      \* time.sleep(0.8)

WarnAfter == 90         \* if current_time - start_time > 9

PollInterval == 10      \* time.sleep(1) of the monitoring loop

\* How late the worker may deliver a time limit, and how long the work of
\* an iteration besides its sleep (the sum, update_state) may take.
MaxLate == 10

MaxOverhead == 1

\* Time passes until the next party is due: the client's or the worker's
\* sleep ends, the queued task is taken, or a limit is reached.
Advance ==
    /\ entry = "demo_slow_task"
    /\ tasks[1].pc \in {"sleep", "done", "raised"}
    /\ threads[1].pc # "loop"
    /\ LET dues == (IF tasks[1].pc = "sleep" THEN {tasks[1].due} ELSE {})
                     \cup (IF threads[1].state = "queued"
                              \/ (threads[1].state = "running"
                                    /\ threads[1].pc = "sleep")
                           THEN {threads[1].due} ELSE {})
                     \cup {timers[k].when :
                              k \in {j \in 1..Len(timers) :
                                        ~timers[j].fired
                                          /\ threads[1].state = "running"}}
           first == CHOOSE d \in dues : \A e \in dues : d <= e
       IN  dues # {} /\ first > now /\ now' = first
    /\ UNCHANGED <<futs, tasks, ready, timers, todo, cur, log, phase,
                   threads, entry, cfg>>

\* A worker that does not deliver the soft time limit (a pool without
\* signals): only the hard limit is enforced.
TimeLimitsHardOnly ==
    /\ entry = "demo_slow_task"
    /\ threads[1].state = "running"
    /\ \E k \in 1..Len(timers) :
          /\ ~timers[k].fired /\ now >= timers[k].when
          /\ timers' = [timers EXCEPT ![k].fired = TRUE]
          /\ IF timers[k].kind = "soft"
             THEN UNCHANGED <<futs, threads, log>>
             ELSE /\ threads' = [threads EXCEPT ![1].state = "killed",
                                                ![1].pc = ""]
                  /\ futs' = [futs EXCEPT ![1].state = "FAILURE",
                                          ![1].status = "TimeLimitExceeded"]
                  /\ log' = Append(log, Ev("hard time limit", 0, "", now))
    /\ UNCHANGED <<now, tasks, ready, todo, cur, phase, entry, cfg>>

\* The worker enforces the limits of app.conf.update on the running task.
\* At the soft limit SoftTimeLimitExceeded is raised in the task, wherever
\* it is: in slow_calculation that is inside the `try`, so the `except`
\* clause logs and returns the 'timeout_exceeded' result (with `result`
\* and the loop variable i as they are at that point), which the worker
\* stores as the task's result.  At the hard limit the worker kills the
\* process that still runs the task and stores the failure.
TimeLimits ==
    /\ entry = "demo_slow_task"
    /\ threads[1].state = "running"
    /\ \E k \in 1..Len(timers) :
          /\ ~timers[k].fired /\ now >= timers[k].when
          /\ timers' = [timers EXCEPT ![k].fired = TRUE]
          /\ IF timers[k].kind = "soft"
             THEN /\ threads' = [threads EXCEPT ![1].state = "done",
                                                ![1].pc = ""]
                  /\ futs' = [futs EXCEPT
                                 ![1].state = "SUCCESS",
                                 ![1].status = "timeout_exceeded",
                                 ![1].result = threads[1].result,
                                 ![1].completed = threads[1].i,
                                 ![1].duration = now - threads[1].start,
                                 ![1].at = now]
                  /\ log' = Append(log, Ev("hit soft timeout", threads[1].i,
                                           "", now))
             ELSE /\ threads' = [threads EXCEPT ![1].state = "killed",
                                                ![1].pc = ""]
                  /\ futs' = [futs EXCEPT ![1].state = "FAILURE",
                                          ![1].status = "TimeLimitExceeded",
                                          ![1].at = now]
                  /\ log' = Append(log, Ev("hard time limit", 0, "", now))
    /\ UNCHANGED <<now, tasks, ready, todo, cur, phase, entry, cfg>>

\* slow_calculation(self, iterations) in the worker: the worker takes the
\* task from the broker, arms the limits and calls the function; each
\* iteration adds its sum to `result`, sleeps and reports its progress;
\* after the last one the 'completed' result is returned.
SlowCalculation ==
    /\ entry = "demo_slow_task"
    /\ LET w == threads[1]
       IN  CASE w.state = "queued" /\ now >= w.due ->
                  /\ timers' = << [kind |-> "soft", fired |-> FALSE,
                                    when |-> now + SoftTimeLimit + cfg.skew],
                                   [kind |-> "hard", fired |-> FALSE,
                                    when |-> now + TimeLimit + cfg.skew] >>
                  /\ threads' = [threads EXCEPT ![1].state = "running",
                                                ![1].pc = "loop",
                                                ![1].start = now]
                  /\ log' = Append(log, Ev("Slow task started", cfg.jobs,
                                           "", now))
                  /\ UNCHANGED <<now, futs>>
             [] w.state = "running" /\ w.pc = "loop" /\ w.i < cfg.jobs ->
                  /\ threads' = [threads EXCEPT
                                    ![1].pc = "sleep",
                                    ![1].result = @ + SumOfSquares,
                                    ![1].due = now + IterationTime
                                                   + cfg.overhead]
                  /\ log' = IF now - w.start > WarnAfter
                            THEN Append(log, Ev("approaching timeout limit",
                                                w.i, "", now))
                            ELSE log
                  /\ UNCHANGED <<now, futs, timers>>
             [] w.state = "running" /\ w.pc = "sleep" /\ now >= w.due ->
                  /\ threads' = [threads EXCEPT ![1].pc = "loop",
                                                ![1].i = @ + 1]
                  /\ futs' = [futs EXCEPT ![1].state = "PROGRESS",
                                          ![1].current = w.i + 1]
                  /\ UNCHANGED <<now, log, timers>>
             [] w.state = "running" /\ w.pc = "loop" /\ w.i = cfg.jobs ->
                  /\ threads' = [threads EXCEPT ![1].state = "done",
                                                ![1].pc = ""]
                  /\ futs' = [futs EXCEPT
                                 ![1].state = "SUCCESS",
                                 ![1].status = "completed",
                                 ![1].result = w.result,
                                 ![1].completed = cfg.jobs,
                                 ![1].duration = now - w.start,
                                 ![1].at = now]
                  /\ log' = Append(log, Ev("Slow task completed", w.i, "",
                                           now))
                  /\ UNCHANGED <<now, timers>>
             [] OTHER -> FALSE
    /\ UNCHANGED <<tasks, ready, todo, cur, phase, entry, cfg>>

\* demo_slow_task(): the task is sent; while it is not ready the loop
\* prints its progress and sleeps a second; then task.get() gives the
\* stored result, or raises the stored failure.
DemoSlowTask ==
    /\ entry = "demo_slow_task"
    /\ LET c == tasks[1]
       IN  CASE c.pc = "send" ->
                  /\ threads' = [threads EXCEPT ![1].state = "queued",
                                                ![1].due = now + cfg.delay]
                  /\ tasks' = [tasks EXCEPT ![1].pc = "while"]
                  /\ log' = Append(log, Ev("Sending slow task", cfg.jobs,
                                           "", now))
             [] c.pc = "while" /\ futs[1].state \in {"SUCCESS", "FAILURE"} ->
                  /\ tasks' = [tasks EXCEPT ![1].pc = "get"]
                  /\ UNCHANGED <<threads, log>>
             [] c.pc = "while" /\ futs[1].state \in {"PENDING", "PROGRESS"} ->
                  /\ tasks' = [tasks EXCEPT ![1].pc = "sleep",
                                            ![1].due = now + PollInterval]
                  /\ log' = IF futs[1].state = "PROGRESS"
                            THEN Append(log, Ev("Progress", futs[1].current,
                                                "", now))
                            ELSE log
                  /\ UNCHANGED threads
             [] c.pc = "sleep" /\ now >= c.due ->
                  /\ tasks' = [tasks EXCEPT ![1].pc = "while"]
                  /\ UNCHANGED <<threads, log>>
             [] c.pc = "get" ->
                  /\ tasks' = [tasks EXCEPT
                                  ![1].pc = IF futs[1].state = "SUCCESS"
                                            THEN "done" ELSE "raised"]
                  /\ log' = Append(log,
                                IF futs[1].state = "SUCCESS"
                                THEN Ev("Final Status", futs[1].completed,
                                        futs[1].status, now)
                                ELSE Ev("get raised", 0, futs[1].status, now))
                  /\ UNCHANGED threads
             [] OTHER -> FALSE
    /\ UNCHANGED <<now, futs, ready, timers, todo, cur, phase, entry, cfg>>

\* demo_slow_task() with a worker running, for its 15 iterations and for
\* 12, whose loop may end before the soft limit,
\* each time the task may wait in the broker and each lateness of the
\* limits.
InitCelery ==
    /\ now = 0 /\ log = <<>> /\ ready = <<>> /\ timers = <<>>
    /\ todo = 0 /\ cur = 0 /\ phase = "run" /\ entry = "demo_slow_task"
    /\ tasks = << [pc |-> "send", due |-> 0] >>
    /\ threads = << [fn |-> "slow_calculation", state |-> "idle", pc |-> "",
                     i |-> 0, result |-> 0, start |-> 0, due |-> 0] >>
    /\ futs = << [state |-> "PENDING", status |-> "", current |-> 0,
                  result |-> 0, completed |-> 0, duration |-> 0,
                  at |-> 0] >>
    /\ \E n \in {12, 15}, wait \in {0, 5}, late \in 0..MaxLate,
          ov \in 0..MaxOverhead :
          cfg = [jobs |-> n, delay |-> wait, skew |-> late, overhead |-> ov]

NextCelery ==
    \/ Advance
    \/ TimeLimits
    \/ SlowCalculation
    \/ DemoSlowTask

\* Neither the worker nor the client stops while it has something to do.
SpecCelery == InitCelery /\ [][NextCelery]_vars /\ WF_vars(NextCelery)

\* fetch_async(url, session) of 05_web_fetching_async.py.  The request
\* (session.get and response.text()) takes some time and then gives the
\* page, gives an empty body (fr.h = 2) or raises (fr.h = 1); `except
\* Exception` turns a failure into the result None.
FetchAsync ==
    /\ Running("fetch_async")
    /\ LET S  == St
           fr == Top(S)
       IN  CASE fr.pc = "start" ->
                  Commit(Goto(SayV(S, "Starting to fetch", 0, fr.data), "io"))
             [] fr.pc = "io" ->
                  \E d \in {1, 2}, outcome \in {0, 1, 2} :
                      Commit(Call(SetTop(S, [fr EXCEPT !.h = outcome]),
                                  "completed", SleepFrame(d)))
             [] fr.pc = "completed" ->
                  Commit(IF fr.h = 1 THEN Raise(S, "ClientError")
                         ELSE Goto(SayV(S, "Completed fetch", 0, fr.data),
                                   "return"))
             [] fr.pc = "return" ->
                  Commit(Return(S, IF fr.h = 2 THEN ""
                                   ELSE "content of " \o fr.data))
             [] fr.pc = "except" ->
                  Commit(Goto(SayV(S, "Error fetching", 0, fr.data),
                              "return_none"))
             [] fr.pc = "return_none" -> Commit(Return(S, NoValue))

\* main() of 05_web_fetching_async.py.  `async with ClientSession()`
\* opens the session before the list of fetch_async(url, session) calls is
\* built (pc "gather" is the statement after it) and closes it when the
\* block is left, after the await of gather has returned or raised.  The
\* report prints a line for urls[i] when results[i] is truthy: neither
\* None nor the empty text.
WebMain ==
    /\ Running("web_main")
    /\ LET S    == St
           fr   == Top(S)
           urls == <<"http://example.com", "http://example.org",
                     "http://httpbin.org/get">>
       IN  Commit(
           CASE fr.pc = "start" ->
                  SetTop(Say(S, "=== Asynchronous Web Fetching ===", 0),
                         [fr EXCEPT !.t = S.now, !.pc = "session"])
             [] fr.pc = "session" -> Goto(Say(S, "ClientSession()", 0), "tasks")
             [] fr.pc = "tasks" -> Goto(Say(S, "tasks = [...]", 3), "gather")
             [] fr.pc = "gather" ->
                  LET S1 == CreateFuture(S)
                      S2 == Gather(S1,
                              [i \in 1..Len(urls) |->
                                  [fn |-> "fetch_async", name |-> urls[i],
                                   duration |-> 0]],
                              LastFut(S1), 1)
                  IN  SetTop(Say(S2, "gather(*tasks)", 3),
                             [fr EXCEPT !.f = LastFut(S1), !.pc = "await"])
             [] fr.pc = "await" -> Await(S, fr.f, "aexit")
             [] fr.pc = "aexit" -> Goto(Say(S, "session closed", 0), "results")
             [] fr.pc = "aexit_raise" ->
                  Raise(Say(S, "session closed", 0), fr.pend)
             [] fr.pc = "results" ->
                  SetTop(Say(S, "Results:", 0),
                         [fr EXCEPT !.results = S.futs[fr.f].results,
                                    !.h = S.now, !.i = 0, !.pc = "for"])
             [] fr.pc = "for" ->
                  IF fr.i = Len(fr.results) THEN Goto(S, "done")
                  ELSE SetTop(IF fr.results[fr.i + 1] \notin {NoValue, ""}
                              THEN SayV(S, "Fetched", urls[fr.i + 1],
                                        fr.results[fr.i + 1])
                              ELSE S,
                              [fr EXCEPT !.i = @ + 1])
             [] fr.pc = "done" ->
                  Goto(Say(S, "Done in", fr.h - fr.t), "return")
             [] fr.pc = "return" -> Return(S, NoValue))

\* read_file_async(filepath) of 07_file_reading_async.py.  Opening and
\* reading the file takes some time and then gives the text, gives the
\* empty text of an empty file (fr.h = 2) or raises (fr.h = 1); `except
\* Exception` turns a failure into the result None.
ReadFileAsync ==
    /\ Running("read_file_async")
    /\ LET S  == St
           fr == Top(S)
       IN  CASE fr.pc = "start" ->
                  Commit(Goto(SayV(S, "Starting to read", 0, fr.data), "io"))
             [] fr.pc = "io" ->
                  \E d \in {1, 2}, outcome \in {0, 1, 2} :
                      Commit(Call(SetTop(S, [fr EXCEPT !.h = outcome]),
                                  "completed", SleepFrame(d)))
             [] fr.pc = "completed" ->
                  Commit(IF fr.h = 1 THEN Raise(S, "OSError")
                         ELSE Goto(SayV(S, "Completed reading", 0, fr.data),
                                   "return"))
             [] fr.pc = "return" ->
                  Commit(Return(S, IF fr.h = 2 THEN ""
                                   ELSE "content of " \o fr.data))
             [] fr.pc = "except" ->
                  Commit(Goto(SayV(S, "Error reading", 0, fr.data),
                              "return_none"))
             [] fr.pc = "return_none" -> Commit(Return(S, NoValue))

\* read_all_async(filepaths) of 07_file_reading_async.py, with the three
\* sample files: the list of read_file_async(filepath) calls is built (pc
\* "gather" is the statement after it), then handed to gather.  The
\* returned list holds the pair (filepath, content) of every file whose
\* content is truthy, neither None nor the empty text: each pair is
\* written to the log as it is put in the list, and the call returns how
\* many there are.
ReadAllAsync ==
    /\ Running("read_all_async")
    /\ LET S  == St
           fr == Top(S)
           filepaths == <<"async_file1.txt", "async_file2.txt",
                          "async_file3.txt">>
       IN  Commit(
           CASE fr.pc = "start" -> Goto(Say(S, "tasks = [...]", 3), "gather")
             [] fr.pc = "gather" ->
                  LET S1 == CreateFuture(S)
                      S2 == Gather(S1,
                              [i \in 1..Len(filepaths) |->
                                  [fn |-> "read_file_async",
                                   name |-> filepaths[i], duration |-> 0]],
                              LastFut(S1), 1)
                  IN  SetTop(Say(S2, "gather(*tasks)", 3),
                             [fr EXCEPT !.f = LastFut(S1), !.pc = "await"])
             [] fr.pc = "await" -> Await(S, fr.f, "zip")
             [] fr.pc = "zip" ->
                  SetTop(S, [fr EXCEPT !.results = S.futs[fr.f].results,
                                       !.i = 0, !.h = 0, !.pc = "pairs"])
             [] fr.pc = "pairs" ->
                  IF fr.i = Len(fr.results) THEN Return(S, fr.h)
                  ELSE IF fr.results[fr.i + 1] \notin {NoValue, ""}
                  THEN SetTop(SayV(S, "pair", filepaths[fr.i + 1],
                                   fr.results[fr.i + 1]),
                              [fr EXCEPT !.i = @ + 1, !.h = @ + 1])
                  ELSE SetTop(S, [fr EXCEPT !.i = @ + 1]))

\* asyncio.run(main()) of 03_hello_async_concurrent.py and
\* asyncio.run(say_hello_async()) of 02_hello_async_basic.py, when at most
\* MaxFailures of the first and last prints of the coroutines raise; and
\* asyncio.run(main()) of 05_web_fetching_async.py and read_all_async of
\* 07_file_reading_async.py as the root of a run.
Init03 ==
    \/ /\ \E fn \in {"concurrent_main", "say_hello_async_basic"} :
             RunInit(fn)
       /\ \E F \in SUBSET (FailPoints(ConcurrentInputs)
                              \cup {"main:start", "main:finish"}) :
             /\ Cardinality(F) <= MaxFailures
             /\ cfg = [SourceCfg("waiter") EXCEPT !.fail = F]
    \/ /\ \E fn \in {"web_main", "read_all_async"} : RunInit(fn)
       /\ cfg = SourceCfg("waiter")

Next03 ==
    \/ Loop
    \/ SayHelloAsync
    \/ DoSomethingElse
    \/ ConcurrentMain
    \/ SayHelloAsyncBasic
    \/ FetchAsync
    \/ WebMain
    \/ ReadFileAsync
    \/ ReadAllAsync

Spec03 == Init03 /\ [][Next03]_vars

\* The same runs with a loop that keeps going: while a handle is ready, a
\* timer is pending or a coroutine is in mid-step, a step is taken.
Spec03Live == Spec03 /\ WF_vars(Next03)

Spec08Fail == Init08Fail /\ [][Next08Fail]_vars

\* ------------------- 04_web_fetching_sync.py and 06_file_reading_sync.py
\* The synchronous programs have no event loop: one thread runs main, and a
\* blocking call lets the time pass.  tasks[1] holds the locals of the
\* running function: data is the list of inputs, i the position in it, ret
\* what fetch or read_file_sync returned, results the list built so far.

\* main() of 04_web_fetching_sync.py with the fetch(url) it calls for each
\* URL in turn.  requests.get blocks for some time and then gives the page,
\* gives an empty body (h = 2) or raises RequestException (h = 1), which
\* fetch turns into None.  A truthy result is appended to results with its
\* URL; the report prints the entries of results.
SyncWebMain ==
    /\ entry = "sync_web_main"
    /\ LET c   == tasks[1]
           url == c.data[c.i + 1]
           Log(ev, a, v) == log' = Append(log, Ev(ev, a, v, now))
       IN  CASE c.pc = "start" ->
                  /\ tasks' = [tasks EXCEPT ![1].t = now, ![1].pc = "for"]
                  /\ Log("=== Synchronous Web Fetching ===", 0, "")
                  /\ now' = now
             [] c.pc = "for" /\ c.i < Len(c.data) ->
                  /\ tasks' = [tasks EXCEPT ![1].pc = "get"]
                  /\ Log("Starting to fetch", 0, url)
                  /\ now' = now
             [] c.pc = "get" ->
                  \E d \in {1, 2}, outcome \in {0, 1, 2} :
                      LET h == Handler([fn |-> "fetch", pc |-> "get"],
                                       "RequestException")
                      IN  /\ now' = now + d
                          /\ tasks' = [tasks EXCEPT
                                ![1].h = outcome,
                                ![1].pc = IF outcome # 1 THEN "completed"
                                          ELSE IF h # "" THEN h
                                          ELSE "raised"]
                          /\ log' = log
             [] c.pc = "completed" ->
                  /\ tasks' = [tasks EXCEPT
                        ![1].ret = IF c.h = 2 THEN ""
                                   ELSE "content of " \o url,
                        ![1].pc = "if"]
                  /\ Log("Completed fetch", 0, url)
                  /\ now' = now
             [] c.pc = "except" ->
                  /\ tasks' = [tasks EXCEPT ![1].ret = NoValue,
                                            ![1].pc = "if"]
                  /\ Log("Error fetching", 0, url)
                  /\ now' = now
             [] c.pc = "if" ->
                  /\ tasks' = [tasks EXCEPT
                        ![1].results = IF c.ret \notin {NoValue, ""}
                                       THEN Append(@, <<url, c.ret>>) ELSE @,
                        ![1].i = @ + 1, ![1].pc = "for"]
                  /\ UNCHANGED <<log, now>>
             [] c.pc = "for" /\ c.i = Len(c.data) ->
                  /\ tasks' = [tasks EXCEPT ![1].h = now, ![1].i = 0,
                                            ![1].pc = "report"]
                  /\ Log("Results:", 0, "")
                  /\ now' = now
             [] c.pc = "report" /\ c.i < Len(c.results) ->
                  /\ tasks' = [tasks EXCEPT ![1].i = @ + 1]
                  /\ Log("Fetched", c.results[c.i + 1][1],
                         c.results[c.i + 1][2])
                  /\ now' = now
             [] c.pc = "report" /\ c.i = Len(c.results) ->
                  /\ tasks' = [tasks EXCEPT ![1].pc = "done"]
                  /\ Log("Done in", c.h - c.t, "")
                  /\ now' = now
             [] OTHER -> FALSE
    /\ UNCHANGED <<futs, ready, timers, todo, cur, phase, threads, entry,
                   cfg>>

\* read_all_sync(filepaths) of 06_file_reading_sync.py with the
\* read_file_sync(filepath) it calls for each file in turn.  Opening and
\* reading blocks for some time and then gives the text, gives the empty
\* text (h = 2) or raises OSError (h = 1), which read_file_sync turns into
\* None.  A truthy content is appended to results, paired with its file.
ReadAllSync ==
    /\ entry = "read_all_sync"
    /\ LET c        == tasks[1]
           filepath == c.data[c.i + 1]
           Log(ev, a, v) == log' = Append(log, Ev(ev, a, v, now))
       IN  CASE c.pc = "for" /\ c.i < Len(c.data) ->
                  /\ tasks' = [tasks EXCEPT ![1].pc = "read"]
                  /\ Log("Starting to read", 0, filepath)
                  /\ now' = now
             [] c.pc = "read" ->
                  \E d \in {1, 2}, outcome \in {0, 1, 2} :
                      LET h == Handler([fn |-> "read_file_sync",
                                        pc |-> "read"], "OSError")
                      IN  /\ now' = now + d
                          /\ tasks' = [tasks EXCEPT
                                ![1].h = outcome,
                                ![1].pc = IF outcome # 1 THEN "completed"
                                          ELSE IF h # "" THEN h
                                          ELSE "raised"]
                          /\ log' = log
             [] c.pc = "completed" ->
                  /\ tasks' = [tasks EXCEPT
                        ![1].ret = IF c.h = 2 THEN ""
                                   ELSE "content of " \o filepath,
                        ![1].pc = "if"]
                  /\ Log("Completed reading", 0, filepath)
                  /\ now' = now
             [] c.pc = "except" ->
                  /\ tasks' = [tasks EXCEPT ![1].ret = NoValue,
                                            ![1].pc = "if"]
                  /\ Log("Error reading", 0, filepath)
                  /\ now' = now
             [] c.pc = "if" /\ c.ret \notin {NoValue, ""} ->
                  /\ tasks' = [tasks EXCEPT
                        ![1].results = Append(@, <<filepath, c.ret>>),
                        ![1].i = @ + 1, ![1].pc = "for"]
                  /\ Log("pair", filepath, c.ret)
                  /\ now' = now
             [] c.pc = "if" /\ c.ret \in {NoValue, ""} ->
                  /\ tasks' = [tasks EXCEPT ![1].i = @ + 1,
                                            ![1].pc = "for"]
                  /\ UNCHANGED <<log, now>>
             [] c.pc = "for" /\ c.i = Len(c.data) ->
                  /\ tasks' = [tasks EXCEPT ![1].pc = "done"]
                  /\ Log("read_all_sync returned", Len(c.results), "")
                  /\ now' = now
             [] OTHER -> FALSE
    /\ UNCHANGED <<futs, ready, timers, todo, cur, phase, threads, entry,
                   cfg>>

\* main() of 04_web_fetching_sync.py with its three URLs, and
\* read_all_sync of 06_file_reading_sync.py with the three sample files.
InitSync ==
    /\ now = 0 /\ log = <<>> /\ ready = <<>> /\ timers = <<>>
    /\ futs = <<>> /\ threads = <<>>
    /\ todo = 0 /\ cur = 0 /\ phase = "run" /\ cfg = SourceCfg("waiter")
    /\ \/ /\ entry = "sync_web_main"
          /\ tasks = << [pc |-> "start", i |-> 0, h |-> 0, t |-> 0,
                         ret |-> NoValue, results |-> <<>>,
                         data |-> <<"http://example.com",
                                    "http://example.org",
                                    "http://httpbin.org/get">>] >>
       \/ /\ entry = "read_all_sync"
          /\ tasks = << [pc |-> "for", i |-> 0, h |-> 0, t |-> 0,
                         ret |-> NoValue, results |-> <<>>,
                         data |-> <<"file1.txt", "file2.txt",
                                    "file3.txt">>] >>

NextSync ==
    \/ SyncWebMain
    \/ ReadAllSync

\* A sequential program goes on until it has ended.
SpecSync == InitSync /\ [][NextSync]_vars /\ WF_vars(NextSync)

\* ================================================== properties: helpers

\* The lateness with which a pass of the loop may read the clock, at most.
MaxSkew == 1

\* The delays the producer is given around the timeout: well before it,
\* just before it, at it, just after it, and the source's.
ProducerDelays == {10, Timeout - 1, Timeout, Timeout + 1, SlowDelay}

\* wait_for under every way the awaited future and the deadline can meet:
\* future_with_timeout_example with a producer that resolves or fails the
\* future before, at and after the timeout, under each wait_for
\* implementation; run alone, with a clock that passes of the loop may
\* read late, and inside main, where the loop goes on after the example,
\* with an exact clock.
InitWaitFor ==
    /\ \E fn \in {"future_with_timeout_example", "main"} : RunInit(fn)
    /\ \E data \in {"slow_result", "error"}, delay \in ProducerDelays,
          impl \in WaitForImpls,
          skew \in IF entry = "main" THEN {0} ELSE 0..MaxSkew :
           cfg = [data |-> data, delay |-> delay, timeout |-> Timeout,
                  impl |-> impl, skew |-> skew, lag |-> FALSE, fail |-> {},
                  jobs |-> 1]

\* main cannot get as far as manual_future_control (see C5).
NextWaitFor ==
    \/ Loop
    \/ WaitFor
    \/ WaitForTimeout
    \/ CancelAndWait
    \/ AsyncOperation
    \/ BasicFutureExample
    \/ MultipleFuturesExample
    \/ FutureWithTimeoutExample
    \/ FutureStateMonitoring
    \/ CancellationExample
    \/ Main

SpecWaitFor == InitWaitFor /\ [][NextWaitFor]_vars


FramePlaces == {<<t, d>> \in (1..Len(tasks)) \X (1..8) : d <= Len(tasks[t].stack)}

\* The frames of coroutine function fn, in any task, running or suspended.
FramesOf(fn) ==
    {tasks[p[1]].stack[p[2]] : p \in {q \in FramePlaces :
                                        tasks[q[1]].stack[q[2]].fn = fn}}

\* The positions of the log at which `ev` was printed.
Printed(ev) == {k \in 1..Len(log) : log[k].ev = ev}

\* The loop is blocked for ever: nothing is ready, no timer is pending, and
\* run_until_complete has not been released by the root's completion.
Stuck ==
    /\ phase = "run" /\ cur = 0 /\ todo = 0
    /\ ready = <<>> /\ Live(timers) = {}

\* ------------------------------------------------------------------ C4
\* C4: in cancellation_example, once the cancel request announced as
\* 'Cancelling the future...' has been issued, `future` is in the Cancelled
\* state, and the run never ends blocked in the following `await future`:
\* the 'Future was cancelled' branch is taken.
C4_CancelRequestCancelsFuture ==
    \A k \in Printed("Cancelling the future...") :
        /\ futs[log[k].a].state = "CANCELLED"
        /\ Stuck => \E j \in Printed("Future was cancelled") : j > k

\* ------------------------------------------------------------------ C5
\* C5: main is never left suspended for ever: whenever the loop has
\* nothing ready and no timer pending, the root computation has finished
\* (so main has reached 'All Future examples completed!').
C5_MainNeverSuspendedForever ==
    (entry = "main" /\ Stuck) => Printed("All Future examples completed!") # {}

\* ------------------------------------------------------------------ C6
\* C6: in future_with_timeout_example (producer delay 6, timeout 3) the
\* wait fails with TimeoutError one timeout (3 units) after the example
\* began, earlier than the producer's delay; the awaited future is then in
\* the Cancelled state and stays there, the example never gets a result,
\* and it never ends without having reported the timeout.
C6_TimeoutFiresAtDeadline ==
    /\ \A k \in Printed("Operation timed out!") :
          /\ futs[log[k].a].state = "CANCELLED"
          /\ \E j \in Printed("=== Future with Timeout Example ===") :
                /\ j < k
                /\ log[k].at - log[j].at = Timeout
                /\ log[k].at - log[j].at < SlowDelay
    /\ \A fr \in FramesOf("future_with_timeout_example") : fr.pc # "print"
    /\ (entry = "future_with_timeout_example" /\ phase = "closed")
          => Printed("Operation timed out!") # {}

\* TimeoutError was caught at the deadline, the future is cancelled, and
\* the example has run to the end and the loop has closed.
C6_Witness ==
    \E k \in Printed("Operation timed out!") :
        /\ futs[log[k].a].state = "CANCELLED"
        /\ phase = "closed"

\* The step prints `ev` (as the first thing it prints).
Called(ev) == Len(log') > Len(log) /\ log'[Len(log) + 1].ev = ev

\* The future the step's first printed line is about.
CalledOn == log'[Len(log) + 1].a

\* ------------------------------------------------------------------ C1
\* C1: a Future leaves the pending state at most once.  In no step does a
\* terminal Future change its state, its stored result or its stored
\* exception, whatever is called on it; and a set_result or set_exception
\* called on a terminal Future is a fault (InvalidStateError) raised in the
\* caller.
C1_TerminalOutcomeIsFinal ==
    [][ /\ \A f \in 1..Len(futs) :
              futs[f].state # "PENDING" =>
                  /\ futs'[f].state = futs[f].state
                  /\ futs'[f].result = futs[f].result
                  /\ futs'[f].exc = futs[f].exc
        /\ ( /\ Called("set_result()") \/ Called("set_exception()")
             /\ futs[CalledOn].state # "PENDING" )
              => tasks'[cur].exc = "InvalidStateError"
      ]_vars

\* A second completion was attempted on a terminal Future and faulted.
C1_Witness ==
    \E k \in Printed("raised") :
        /\ log[k].v = "InvalidStateError"
        /\ log[k - 1].ev \in {"set_result()", "set_exception()"}
        /\ futs[log[k].a].state # "PENDING"

\* ------------------------------------------------------------------ C2
\* The log positions at which the callback registered as number i ran.
Runs(i) == {k \in Printed("Future i callback executed") : log[k].a = i}

\* C2: of the callbacks registered on the client's Future with
\* add_done_callback, none runs while the Future is pending, none runs
\* that was not registered, none runs twice, they run in the order of
\* their registration, and once the Future is terminal and the loop has
\* nothing left to run each has run exactly once, also those registered
\* after the Future became terminal.  The same for the four callbacks of
\* multiple_futures_example, one per future.
C2_CallbacksRunOnceInOrder ==
    /\ \A c \in Printed("Future()") :
          LET f   == log[c].a
              Reg == Printed("add_done_callback()")
              Run == Printed("Future i callback executed")
          IN  /\ Run # {} => futs[f].state # "PENDING"
              /\ \A k \in Run : \E r \in Reg : r < k /\ log[r].a = log[k].a
              /\ \A r \in Reg : Cardinality(Runs(log[r].a)) <= 1
              /\ \A k1, k2 \in Run : k1 < k2 => log[k1].a < log[k2].a
              /\ (futs[f].state # "PENDING" /\ cur = 0 /\ ready = <<>>)
                    => \A r \in Reg : Cardinality(Runs(log[r].a)) = 1
    /\ \A fr \in FramesOf("multiple_futures_example") :
          \A n \in 1..Len(fr.fs) :
              /\ Cardinality(Runs(n - 1)) <= 1
              /\ Runs(n - 1) # {} => futs[fr.fs[n]].state # "PENDING"
              /\ (futs[fr.fs[n]].state # "PENDING" /\ cur = 0 /\ ready = <<>>)
                    => Cardinality(Runs(n - 1)) = 1

\* A callback registered while the Future was pending and one registered
\* after it became terminal have both run, once each, and the loop is idle.
C2_Witness ==
    /\ cur = 0 /\ ready = <<>>
    /\ \E r1, r2 \in Printed("add_done_callback()") :
          \E s \in Printed("set_result()") \cup Printed("cancel()") :
              /\ r1 < s /\ s < r2
              /\ futs[log[s].a].state # "PENDING"
              /\ Cardinality(Runs(log[r1].a)) = 1
              /\ Cardinality(Runs(log[r2].a)) = 1

\* ------------------------------------------------------------------ C3
\* What an await of future f delivered, against what f holds: a returned
\* value is f's stored result and f has no exception; a raised
\* CancelledError means f is cancelled; any other raised exception is the
\* one stored in f.
Returned(f, v) ==
    futs[f].state = "FINISHED" /\ futs[f].exc = "" /\ futs[f].result = v

Threw(f, e) ==
    IF e = "CancelledError" THEN futs[f].state = "CANCELLED"
    ELSE futs[f].state = "FINISHED" /\ e # "" /\ futs[f].exc = e

\* C3: awaiting a Future yields exactly its terminal outcome, whether the
\* awaiter was suspended and resumed or the Future was already terminal:
\* in the client (any order of calls), in manual_future_control (either
\* random branch) and in multiple_futures_example.
C3_AwaitYieldsOutcome ==
    /\ \A fr \in FramesOf("future_client") :
          /\ fr.pc = "print" => Returned(fr.f, fr.ret)
          /\ fr.pc = "await_except" => Threw(fr.f, fr.pend)
    /\ \A fr \in FramesOf("manual_future_control") :
          /\ fr.pc = "print" =>
                Returned(fr.f, fr.ret) /\ fr.ret = "Manually set success!"
          /\ fr.pc = "except" => Threw(fr.f, fr.pend) /\ fr.pend = "ValueError"
    /\ \A fr \in FramesOf("multiple_futures_example") :
          /\ fr.pc = "print" => Returned(fr.fs[fr.i + 1], fr.ret)
          /\ fr.pc = "except" => Threw(fr.fs[fr.i + 1], fr.pend)

\* multiple_futures_example has been resumed with the result of future 0,
\* on which it was suspended, and is now handling the exception of future
\* 2, which was terminal before it was awaited.
C3_Witness ==
    \E fr \in FramesOf("multiple_futures_example") :
        /\ fr.pc = "except" /\ fr.i = 2 /\ fr.pend = "RuntimeError"
        /\ futs[fr.fs[3]].at < now
        /\ \E k \in Printed("Future i: result") :
              log[k].a = 0 /\ futs[fr.fs[1]].at = log[k].at

\* ------------------------------------------------------------------ C9
\* C9: cancel() on a Future that already has a result or an exception
\* returns False and raises nothing; the step changes nothing of the
\* Future and queues no callback; whatever result() returns is the stored
\* result; and no registered callback runs a second time.
C9_CancelOfCompletedIsNoOp ==
    /\ [][ (Called("cancel()") /\ futs[CalledOn].state # "PENDING") =>
              /\ log'[Len(log) + 1].v = "False"
              /\ futs'[CalledOn] = futs[CalledOn]
              /\ ready' = ready
              /\ tasks'[cur].exc = ""
         ]_vars
    /\ [](/\ \A k \in Printed("returned") :
                 /\ log[k].v = futs[log[k].a].result
                 /\ futs[log[k].a].state = "FINISHED"
           /\ \A r \in Printed("add_done_callback()") :
                 Cardinality(Runs(log[r].a)) <= 1)

\* cancel() was called on a resolved Future and returned False, result()
\* afterwards returned what had been stored, and the loop has closed.
C9_Witness ==
    \E s \in Printed("set_result()"), c \in Printed("cancel()"),
       r \in Printed("returned") :
        /\ s < c /\ c < r
        /\ log[c].v = "False"
        /\ log[r].v = Value(s - 1)
        /\ phase = "closed"

\* ------------------------------------------------------------- C7, C8
\* The deadline timers: those wait_for set.
DeadlineTimers ==
    {k \in 1..Len(timers) : timers[k].cb.kind \in {"release_waiter", "on_timeout"}}

DeadlineRan == \E k \in DeadlineTimers : timers[k].ran

\* The places of the frames of future_with_timeout_example.
TimeoutExamplePlaces ==
    {p \in FramePlaces :
        tasks[p[1]].stack[p[2]].fn = "future_with_timeout_example"}

\* wait_for is still on the stack.
InWaitFor == FramesOf("wait_for") \cup FramesOf("wait_for_timeout") # {}

\* wait_for has raised e into the frame at place p, which has not handled
\* it yet.
WaitForRaised(p, e) ==
    /\ Len(tasks[p[1]].stack) = p[2]
    /\ tasks[p[1]].stack[p[2]].pc = "wait_for"
    /\ tasks[p[1]].exc = e

\* Future f completed (resolved or failed) at a time before the deadline.
BeforeDeadline(f) ==
    /\ futs[f].state = "FINISHED"
    /\ \A k \in DeadlineTimers : futs[f].at < timers[k].when

\* C7: when the awaited Future resolves or fails before the deadline,
\* wait_for delivers that Future's own outcome (its result returned, its
\* exception raised, never TimeoutError) as soon as the loop gets to it
\* (within the two passes the hand-over takes), and leaves with the deadline
\* timer cancelled; a cancelled deadline timer never runs afterwards, and
\* nothing is cancelled: the Future keeps its outcome and the producer task
\* ends normally.
C7_OutcomeBeforeDeadline ==
    /\ [](/\ \A p \in TimeoutExamplePlaces :
               LET fr == tasks[p[1]].stack[p[2]]
               IN  (fr.f # 0 /\ BeforeDeadline(fr.f)) =>
                     /\ fr.pc # "except"
                     /\ ~WaitForRaised(p, "TimeoutError")
                     /\ ~WaitForRaised(p, "CancelledError")
                     /\ fr.pc = "print" =>
                           /\ Returned(fr.f, fr.ret)
                           /\ now <= futs[fr.f].at + 2 * cfg.skew
                     /\ (\E e \in {"RuntimeError"} : WaitForRaised(p, e)) =>
                           /\ futs[fr.f].exc = "RuntimeError"
                           /\ now <= futs[fr.f].at + 2 * cfg.skew
                     /\ (cur = 0 /\ ready = <<>>) => ~InWaitFor
                     /\ ~InWaitFor =>
                           \A k \in DeadlineTimers : timers[k].cancelled
                     /\ futs[tasks[fr.t].fut].state # "CANCELLED"
          /\ \A k \in Printed("Operation timed out!") :
                ~BeforeDeadline(log[k].a)
          /\ \A k \in Printed("Result") :
                log[k].v = futs[log[k].a].result)
    /\ [][\A k \in DeadlineTimers :
              timers[k].cancelled =>
                  timers'[k].cancelled /\ timers'[k].ran = timers[k].ran]_vars

\* Inside main the future resolved before the deadline and its result was
\* printed; the loop has since run on past the deadline, and the cancelled
\* deadline timer has not run.
C7_Witness ==
    /\ entry = "main"
    /\ \E j \in Printed("Result"), k \in DeadlineTimers :
          /\ BeforeDeadline(log[j].a)
          /\ log[j].at = futs[log[j].a].at
          /\ timers[k].cancelled /\ ~timers[k].ran
          /\ now > timers[k].when

HybridOutcome(i) ==
    CASE HybridInputs[i].fn = "async_wrapper" ->
            "Result from " \o HybridInputs[i].name
      [] HybridInputs[i].fn = "async_task" ->
            "Async result from " \o HybridInputs[i].name
      [] HybridInputs[i].fn = "cpu_wrapper" -> "333328333350000"

\* C10: the list main gets from gather has, at every position i, the
\* outcome of the i-th input (Sync-1, Async-1, Sync-2, Async-2, cpu), and
\* that is what main prints as Task i, in whatever order the inputs
\* completed.
C10_GatherKeepsInputOrder ==
    /\ \A fr \in FramesOf("hybrid_main") :
          fr.pc \in {"for", "total", "return"} =>
              LET cs == futs[fr.f].children
              IN  /\ Len(cs) = Len(HybridInputs)
                  /\ Len(fr.results) = Len(HybridInputs)
                  /\ \A i \in 1..Len(HybridInputs) :
                        /\ futs[cs[i]].state = "FINISHED"
                        /\ fr.results[i] = futs[cs[i]].result
                        /\ fr.results[i] = HybridOutcome(i)
    /\ \A k \in Printed("Task i") : log[k].v = HybridOutcome(log[k].a)

\* main has printed the five results, and of the inputs Async-1 completed
\* first and Sync-2 last.
C10_Witness ==
    \E fr \in FramesOf("hybrid_main") :
        LET cs == futs[fr.f].children
        IN  /\ fr.pc = "total"
            /\ Cardinality(Printed("Task i")) = Len(HybridInputs)
            /\ \A i \in 1..Len(cs) :
                  /\ i # 2 => futs[cs[2]].at < futs[cs[i]].at
                  /\ i # 3 => futs[cs[i]].at < futs[cs[3]].at

\* The future gather returned to main of 08_async_sync_hybrid.py.
GatherFutures == {f \in 1..Len(futs) : futs[f].children # <<>>}

\* Input i of main's gather fails: one of its prints raises.
InputFails(i) ==
    \/ Fails(HybridInputs[i].name, "start")
    \/ Fails(HybridInputs[i].name, "finish")

\* C11: the gather of main (return_exceptions=True) never fails and is
\* never cancelled; it is done only when every input is done; and its list
\* holds, at the position of every input that raised, the exception as a
\* value, and at every other position that input's result, which is what
\* main prints as Task i.
C11_CollectErrorsGatherNeverFails ==
    /\ \A f \in GatherFutures :
          /\ futs[f].exc = "" /\ futs[f].state # "CANCELLED"
          /\ Done(St, f) =>
                /\ Len(futs[f].results) = Len(HybridInputs)
                /\ \A i \in 1..Len(HybridInputs) :
                      LET c == futs[f].children[i]
                      IN  /\ Done(St, c)
                          /\ InputFails(i) =>
                                /\ futs[c].exc = "OSError"
                                /\ futs[f].results[i] = "OSError"
                          /\ ~InputFails(i) =>
                                /\ futs[c].exc = ""
                                /\ futs[f].results[i] = HybridOutcome(i)
    /\ \A k \in Printed("Task i") :
          log[k].v = IF InputFails(log[k].a) THEN "OSError"
                     ELSE HybridOutcome(log[k].a)

\* main has printed the five entries of the list: the second input
\* (Async-1) and a call in a worker thread (Sync-2) raised, the others
\* returned.
C11_Witness ==
    /\ cfg.fail = {"Async-1:start", "Sync-2:finish"}
    /\ Cardinality(Printed("Task i")) = Len(HybridInputs)
    /\ \E f \in GatherFutures :
          /\ futs[f].state = "FINISHED"
          /\ futs[f].results[2] = "OSError"
          /\ futs[f].results[3] = "OSError"
          /\ futs[f].results[1] = "Result from Sync-1"

\* The futures of the gathers without return_exceptions (03: main).
FailFastGathers ==
    {f \in GatherFutures : ~futs[f].returnExceptions}

\* The inputs of gather future f, as futures.
Inputs(f) == {futs[f].children[i] : i \in 1..Len(futs[f].children)}

\* Input c of a gather has been asked to cancel or is cancelled.
CancelAsked(c) ==
    futs[c].state = "CANCELLED" \/ tasks[futs[c].task].ncancel > 0

\* C12 as stated: the inputs of a fail-fast gather that has failed are not
\* cancelled.
C12_RemainingInputsNotCancelled ==
    \A f \in FailFastGathers :
        futs[f].exc # "" => \A c \in Inputs(f) : ~CancelAsked(c)

\* C12, amended: the future of a fail-fast gather fails with the exception
\* of an input that raised, at the time the first input raised, whether or
\* not the other inputs are done; as long as the root runs no input has
\* been asked to cancel (gather cancels nothing); asyncio.run, on its way
\* out, cancels the inputs still pending, so that all are done when it
\* ends; and once the gather's future is done, no step changes its outcome.
C12_FailFastGatherFailsAtFirstError ==
    /\ [](\A f \in FailFastGathers :
            /\ ~Cancelled(St, f)
            /\ futs[f].exc # "" =>
                  /\ \E c \in Inputs(f) :
                        futs[c].exc = futs[f].exc /\ futs[c].at = futs[f].at
                  /\ \A c \in Inputs(f) :
                        futs[c].exc # "" => futs[c].at >= futs[f].at
            /\ (\E c \in Inputs(f) : futs[c].exc # "" /\ futs[c].at < now)
                  => futs[f].exc # ""
            /\ phase \in {"run", "stopping"} =>
                  \A c \in Inputs(f) : ~CancelAsked(c)
            /\ phase = "closed" => \A c \in Inputs(f) : Done(St, c))
    /\ [][\A f \in FailFastGathers :
            Done(St, f) =>
                /\ futs'[f].state = futs[f].state
                /\ futs'[f].exc = futs[f].exc
                /\ futs'[f].result = futs[f].result
                /\ futs'[f].results = futs[f].results]_vars

\* do_something_else raised at its last print, after 2 seconds: the gather
\* failed then, with say_hello_async still asleep; main got the error, and
\* asyncio.run cancelled say_hello_async, which left the gather's future
\* as it was.
C12_Witness ==
    /\ phase = "closed"
    /\ \E f \in FailFastGathers :
          /\ futs[f].exc = "OSError" /\ futs[f].at = 20
          /\ futs[futs[f].children[2]].exc = "OSError"
          /\ futs[futs[f].children[1]].state = "CANCELLED"
          /\ futs[1].exc = "OSError"

\* Some line `ev` was printed before position k of the log.
PrintedBefore(ev, k) == \E j \in Printed(ev) : j < k

RunEnded == Printed("asyncio.run returned") \cup Printed("asyncio.run raised")

\* C14: asyncio.run is back with its caller (run_until_complete is over,
\* the loop is shut down or closed) only when the root task is done, with
\* nothing left of its coroutine; it comes back once, as the last thing
\* that happens; and the caller gets the root's outcome: its value if it
\* returned, its exception raised if it raised, CancelledError raised if it
\* was cancelled.
C14_RunReturnsRootOutcome ==
    /\ phase \in {"stopping", "shutdown", "closed"} =>
          Done(St, 1) /\ tasks[1].stack = <<>>
    /\ phase = "closed" <=> RunEnded # {}
    /\ \A k \in RunEnded :
          /\ k = Len(log) /\ log[k].at >= futs[1].at
          /\ Cardinality(RunEnded) = 1
    /\ \A k \in Printed("asyncio.run returned") :
          /\ futs[1].state = "FINISHED" /\ futs[1].exc = ""
          /\ log[k].v = futs[1].result
    /\ \A k \in Printed("asyncio.run raised") :
          \/ futs[1].state = "CANCELLED" /\ log[k].v = "CancelledError"
          \/ /\ futs[1].state = "FINISHED" /\ futs[1].exc # ""
             /\ log[k].v = futs[1].exc

\* say_hello_async of 02_hello_async_basic.py slept its 2 seconds and
\* raised at its last print: asyncio.run raised that error to its caller.
C14_Witness ==
    /\ entry = "say_hello_async_basic" /\ phase = "closed"
    /\ Printed("Starting asynchronous hello...") # {}
    /\ futs[1].exc = "OSError" /\ futs[1].at = 20
    /\ \E k \in Printed("asyncio.run raised") : log[k].v = "OSError"

\* C15: the ready queue is first in, first out.  A step takes at most the
\* head off the queue and adds only at its tail, so what was ready earlier
\* stays ahead of what became ready later; a task is made to run only by
\* the handle at the head of the queue; and in 03 the first input of
\* gather, say_hello_async, is started (prints 'Starting hello task...', or
\* raises at that print) before the second prints 'Starting another
\* task...'.
C15_ReadyQueueIsFifo ==
    /\ [][/\ \E n \in {0, 1} :
                /\ n <= Len(ready)
                /\ Len(ready') >= Len(ready) - n
                /\ SubSeq(ready', 1, Len(ready) - n)
                      = SubSeq(ready, n + 1, Len(ready))
          /\ (cur = 0 /\ cur' # 0) =>
                /\ ready # <<>>
                /\ Head(ready).kind \in {"step", "wakeup"}
                /\ Head(ready).arg = cur'
                /\ SubSeq(ready', 1, Len(ready) - 1) = Tail(ready)]_vars
    /\ [](\A k \in Printed("Starting another task...") :
            \/ PrintedBefore("Starting hello task...", k)
            \/ Fails("say_hello_async", "start"))

\* Both inputs of 03's gather have printed their first line, the first
\* input first, and both sleep.
C15_Witness ==
    /\ entry = "concurrent_main" /\ cur = 0
    /\ \E k \in Printed("Starting another task...") :
          PrintedBefore("Starting hello task...", k)
    /\ Cardinality(FramesOf("sleep")) = 2

\* The time at which the line `ev` was printed for the input called name
\* (-1 if it was not).
PrintedAt(ev, name) ==
    IF \E k \in Printed(ev) : log[k].v = name
    THEN log[CHOOSE k \in Printed(ev) : log[k].v = name].at
    ELSE -1

\* C20: in main of 08_async_sync_hybrid.py the loop is not held up by the
\* sync_task calls in the worker threads: Async-1 finishes at 1 s and
\* Async-2 at 1.5 s, however the threads are scheduled, and both before
\* Sync-1 and Sync-2 finish, which is not before 2 s and 3 s; and when the
\* threads do not lag, Sync-1 finishes at 2 s, Sync-2 at 3 s, and the
\* gather is done and main prints the total time at 3 s, the longest of
\* the durations, not their sum.
C20_LoopNotBlockedByWorkers ==
    /\ PrintedAt("Finished async task", "Async-1") \in {-1, 10}
    /\ PrintedAt("Finished async task", "Async-2") \in {-1, 15}
    /\ \A k \in Printed("Finished sync_task") :
          /\ log[k].v = "Sync-1" => log[k].at >= 20
          /\ log[k].v = "Sync-2" => log[k].at >= 30
          /\ \E j \in Printed("Finished async task") :
                j < k /\ log[j].v = "Async-1"
          /\ \E j \in Printed("Finished async task") :
                j < k /\ log[j].v = "Async-2"
    /\ ~cfg.lag =>
          /\ PrintedAt("Finished sync_task", "Sync-1") \in {-1, 20}
          /\ PrintedAt("Finished sync_task", "Sync-2") \in {-1, 30}
          /\ \A f \in GatherFutures : Done(St, f) => futs[f].at = 30
          /\ \A k \in Printed("Total time") : log[k].a = 30

\* Async-1 and Async-2 have finished while Sync-1 and Sync-2 are still
\* busy in their worker threads.
C20_Witness ==
    /\ PrintedAt("Finished async task", "Async-1") = 10
    /\ PrintedAt("Finished async task", "Async-2") = 15
    /\ \E a, b \in 1..Len(threads) :
          /\ threads[a].name = "Sync-1" /\ threads[a].state = "running"
          /\ threads[b].name = "Sync-2" /\ threads[b].state = "running"

\* The call in a worker thread raises: one of its prints fails.
CallFails(th) ==
    Fails(threads[th].name, "start") \/ Fails(threads[th].name, "finish")

\* The input of main's gather that awaits call th (async_wrapper or
\* cpu_wrapper called with the same name), as a future.
AwaiterOf(th) ==
    LET f == CHOOSE g \in GatherFutures : TRUE
        i == CHOOSE j \in 1..Len(HybridInputs) :
                 HybridInputs[j].name = threads[th].name
    IN  futs[f].children[i]

\* C18: in main of 08_async_sync_hybrid.py, a call handed to
\* run_in_executor that raises ends with that exception and no result; its
\* Future, once done, is finished with that exception, and the coroutine
\* awaiting it fails with it at that time; every other call still runs
\* and returns its result, which its Future and its awaiter get, and when
\* asyncio.run ends every call has ended.
C18_WorkerErrorFailsTheFuture ==
    /\ \A th \in 1..Len(threads) :
          LET f == threads[th].fut
              w == AwaiterOf(th)
          IN  /\ ~Cancelled(St, f) /\ ~Cancelled(St, w)
              /\ threads[th].state = "done" =>
                    IF CallFails(th)
                    THEN threads[th].exc = "OSError"
                         /\ threads[th].result = NoValue
                    ELSE threads[th].exc = ""
                         /\ threads[th].result = ThreadResult(threads[th])
              /\ Done(St, f) =>
                    /\ threads[th].state = "done"
                    /\ futs[f].exc = threads[th].exc
                    /\ futs[f].result = threads[th].result
              /\ Done(St, w) =>
                    /\ Done(St, f)
                    /\ futs[w].exc = futs[f].exc
                    /\ futs[w].result = futs[f].result
                    /\ futs[w].at = futs[f].at
    /\ phase = "closed" =>
          /\ Len(threads) = 3
          /\ \A th \in 1..Len(threads) :
                threads[th].state = "done" /\ Done(St, AwaiterOf(th))

\* sync_task for Sync-1 raised at its first print, in its worker thread:
\* its Future and async_wrapper failed with OSError at time 0, and the
\* other two calls went on to return their results.
C18_Witness ==
    /\ cfg.fail = {"Sync-1:start"} /\ phase = "closed"
    /\ \E th \in 1..Len(threads) :
          /\ threads[th].name = "Sync-1"
          /\ futs[threads[th].fut].exc = "OSError"
          /\ futs[AwaiterOf(th)].exc = "OSError"
          /\ futs[AwaiterOf(th)].at = 0
    /\ \E th \in 1..Len(threads) :
          /\ threads[th].name = "Sync-2"
          /\ futs[AwaiterOf(th)].result = "Result from Sync-2"
          /\ futs[AwaiterOf(th)].at = 30

\* The step is a worker thread's: call th starts, or ends, in its thread.
WorkerStep(th) ==
    /\ th <= Len(threads) /\ Len(threads') = Len(threads)
    /\ threads'[th].state # threads[th].state
    /\ threads'[th].state \in {"running", "done"}

\* C17 as stated: a step of a worker thread changes neither a Future nor
\* the loop's ready queue.
C17_WorkerTouchesNeitherFutureNorQueue ==
    [][\A th \in 1..Len(threads) :
          WorkerStep(th) => futs' = futs /\ ready' = ready]_vars

\* C17, amended: a step of a worker thread changes no Future, no task and
\* no timer; to the ready queue it does nothing but, when its call has
\* ended, add at the tail the one handle (call_soon_threadsafe) by which
\* the loop will set the call's Future.  A Future of run_in_executor leaves
\* PENDING only in a step of the loop: the loop runs that handle from the
\* head of the ready queue, or asyncio.run cancels what is pending as it
\* shuts down.
C17_OnlyTheLoopCompletesTheFuture ==
    [][\A th \in 1..Len(threads) :
          /\ WorkerStep(th) =>
                /\ futs' = futs /\ tasks' = tasks /\ timers' = timers
                /\ cur' = cur /\ todo' = todo /\ phase' = phase
                /\ \/ threads'[th].state = "running" /\ ready' = ready
                   \/ /\ threads'[th].state = "done"
                      /\ Len(ready') = Len(ready) + 1
                      /\ SubSeq(ready', 1, Len(ready)) = ready
                      /\ ready'[Len(ready')].kind = "set_state"
                      /\ ready'[Len(ready')].arg = th
                      /\ ready'[Len(ready')].fut = threads[th].fut
          /\ (/\ futs[threads[th].fut].state = "PENDING"
              /\ futs'[threads[th].fut].state # "PENDING") =>
                /\ threads' = threads
                /\ \/ /\ todo > 0 /\ todo' = todo - 1
                      /\ Head(ready).kind = "set_state"
                      /\ Head(ready).arg = th
                      /\ threads[th].state = "done"
                   \/ phase = "stopping" /\ phase' = "shutdown"]_vars

\* sync_task for Sync-1 has ended in its worker thread, the handle for it
\* is in the ready queue, and its Future is still pending.
C17_Witness ==
    \E th \in 1..Len(threads) :
        /\ threads[th].name = "Sync-1" /\ threads[th].state = "done"
        /\ futs[threads[th].fut].state = "PENDING"
        /\ \E k \in 1..Len(ready) :
              ready[k].kind = "set_state" /\ ready[k].arg = th

\* The calls a worker of the thread executor is executing.
Busy ==
    {k \in 1..Len(threads) :
        threads[k].pool = "thread_executor" /\ threads[k].state = "running"}

\* The client of the thread executor cancels nothing in this run.
NoCancel ==
    /\ Printed("cancel()") = {}
    /\ \A fr \in FramesOf("thread_executor_client") : fr.h = 0

\* C16: the thread executor of two workers never executes more than two
\* calls at a time, and a call still in the pool's queue has no handle in
\* the loop's ready queue and a pending Future.  With three calls of 2 s
\* handed over together, and none cancelled: Job-1 and Job-2 start at time
\* 0, Job-3 starts at 2 s, after a call has ended, never while two are
\* being executed; the Futures are done at 2 s, 2 s and 4 s, and the
\* client is through at 4 s.
C16_PoolOfTwoRunsTwoAtATime ==
    /\ Cardinality(Busy) <= MaxWorkers
    /\ \A th \in 1..Len(threads) :
          threads[th].state = "queued" =>
              /\ ~\E k \in 1..Len(ready) :
                    ready[k].kind = "set_state" /\ ready[k].arg = th
              /\ futs[threads[th].fut].state \in {"PENDING", "CANCELLED"}
    /\ (cfg.jobs = 3 /\ cfg.delay = 20 /\ NoCancel) =>
          /\ PrintedAt("Starting sync_task", "Job-1") \in {-1, 0}
          /\ PrintedAt("Starting sync_task", "Job-2") \in {-1, 0}
          /\ PrintedAt("Starting sync_task", "Job-3") \in {-1, 20}
          /\ \A k \in Printed("Starting sync_task") :
                log[k].v = "Job-3" => PrintedBefore("Finished sync_task", k)
          /\ \A th \in 1..Len(threads) :
                Done(St, threads[th].fut) =>
                    /\ futs[threads[th].fut].state = "FINISHED"
                    /\ futs[threads[th].fut].at = <<20, 20, 40>>[th]
          /\ Done(St, 1) => futs[1].at = 40

\* Three calls of 2 s were handed over: two are being executed, the third
\* is in the pool's queue, and time has not moved on.
C16_Witness ==
    /\ cfg.jobs = 3 /\ cfg.delay = 20 /\ NoCancel
    /\ Len(threads) = 3 /\ now = 0
    /\ Cardinality(Busy) = 2
    /\ threads[3].state = "queued"
    /\ \E fr \in FramesOf("thread_executor_client") : fr.pc = "await"

C21_InputsRunBeforeGather ==
    \A k \in Printed("gather(*tasks)") :
        \/ Cardinality({j \in Printed("Starting to fetch") : j < k}) = log[k].a
        \/ Cardinality({j \in Printed("Starting to read") : j < k}) = log[k].a

\* ----------------------------------------------------------------- C22
\* The tasks 09 starts with create_task and never awaits: every task but
\* the root's.
Producers == 2..Len(tasks)

\* Task t has ended cancelled or with an exception.
EndedBadly(t) ==
    \/ futs[tasks[t].fut].state = "CANCELLED"
    \/ futs[tasks[t].fut].exc # ""

\* C22: a failure or a cancellation that ends a producer task nobody awaits
\* changes that task's own Future and nothing else: in the step in which
\* the task ends so, no other future, no other task, the ready queue, the
\* loop's phase and the output stay as they were; nobody is waiting on the
\* task's Future; and an exception the root ends with is never one that
\* only a producer task ended with.
C22_ProducerFailureStaysInItsTask ==
    [][\A t \in Producers :
          (~EndedBadly(t) /\ EndedBadly(t)') =>
              /\ \A g \in 1..Len(futs) :
                     g # tasks[t].fut => futs'[g] = futs[g]
              /\ \A u \in 1..Len(tasks) : u # t => tasks'[u] = tasks[u]
              /\ ready' = ready /\ phase' = phase /\ log' = log
              /\ \A u \in 1..Len(tasks) : tasks[u].waiter # tasks[t].fut
              /\ futs'[1].exc # "InvalidStateError"]_vars

\* A producer task has failed, another run's has been cancelled, and the
\* run went on to its end.
C22_Witness ==
    /\ phase = "closed"
    /\ \E t \in Producers :
          futs[tasks[t].fut].exc = "InvalidStateError"
             \/ (entry = "future_with_timeout_example"
                    /\ cfg.delay = SlowDelay
                    /\ futs[tasks[t].fut].state = "CANCELLED")
    /\ log[Len(log)].ev \in {"asyncio.run returned", "asyncio.run raised"}

\* ----------------------------------------------------------------- C25
\* The places of the ready queue that hold future_callback for future f.
CallbackQueued(f) ==
    {i \in 1..Len(ready) :
        ready[i].kind = "future_callback" /\ ready[i].fut = f}

\* The lines future_callback has printed for future f.
CallbackRan(f) ==
    {k \in 1..Len(log) :
        /\ log[k].ev \in {"Callback executed - Result",
                           "Callback executed - Exception"}
        /\ log[k].a = f}

\* C25: in basic_future_example set_result does not run the callback, it
\* queues it behind the handles of the pass under way: the step that
\* resolves the future prints nothing; 'Main thread - Result' is printed
\* before future_callback runs, while the callback waits in the ready queue
\* for a later pass; the callback runs at most once, and exactly once by
\* the time the loop has nothing left to do.
C25_CallbackRunsAfterTheAwaitingCode ==
    /\ [](\A f \in 1..Len(futs) :
             /\ Cardinality(CallbackRan(f)) <= 1
             /\ \A k \in CallbackRan(f) :
                    /\ CallbackQueued(f) = {}
                    /\ \E j \in Printed("Main thread - Result") :
                           log[j].a = f /\ j < k
             /\ \A j \in Printed("Main thread - Result") :
                    log[j].a = f =>
                       /\ Cardinality(CallbackQueued(f))
                             + Cardinality(CallbackRan(f)) = 1
                       /\ (cur # 0 /\ j = Len(log)) =>
                             \A i \in CallbackQueued(f) : i > todo
                       /\ (Stuck \/ phase = "closed") => CallbackRan(f) # {})
    /\ [][\A f \in 1..Len(futs) :
              (~Done(St, f) /\ futs'[f].state = "FINISHED"
                 /\ \E k \in 1..Len(futs[f].cbs) :
                        futs[f].cbs[k].kind = "future_callback") =>
                  /\ log' = log
                  /\ Cardinality({i \in 1..Len(ready') :
                                     /\ ready'[i].kind = "future_callback"
                                     /\ ready'[i].fut = f}) = 1]_vars

\* basic_future_example has printed its result, and then, at the same loop
\* time, the callback has printed the same result; the run is over.
C25_Witness ==
    /\ entry = "basic_future_example" /\ phase = "closed"
    /\ \E j \in Printed("Main thread - Result"),
          k \in Printed("Callback executed - Result") :
          /\ j < k /\ log[j].a = log[k].a
          /\ log[j].v = "Operation succeeded" /\ log[k].v = log[j].v
          /\ log[k].at = DefaultDelay

\* ----------------------------------------------------------------- C26
\* The lines of the log with one of the texts evs, in the order printed.
Lines(evs) == SelectSeq(log, LAMBDA e : e.ev \in evs)

IsPrefix(s, t) ==
    Len(s) <= Len(t) /\ \A i \in 1..Len(s) : s[i] = t[i]

\* The indices the done-callbacks of multiple_futures_example have
\* announced, and the indices its awaiting loop has reported, in order.
CallbackIndices ==
    [k \in 1..Len(Lines({"Future i callback executed"})) |->
        Lines({"Future i callback executed"})[k].a]

ReportIndices ==
    [k \in 1..Len(Lines({"Future i: result", "Future i failed"})) |->
        Lines({"Future i: result", "Future i failed"})[k].a]

\* The loop time at which multiple_futures_example began.
Began == log[CHOOSE k \in Printed("=== Multiple Futures Example ===") : TRUE].at

\* C26: in multiple_futures_example the done-callbacks fire in completion
\* order, futures 2, 0, 1, 3, each at its producer's delay; the awaiting
\* loop reports in index order 0, 1, 2, 3; the callback of a future has
\* run before the loop reports that future; and the last report comes 7
\* time units after the example began (the largest delay, not the sum),
\* which is when a run of the example alone ends.
C26_CallbacksInCompletionOrderReportsInIndexOrder ==
    /\ IsPrefix(CallbackIndices, <<2, 0, 1, 3>>)
    /\ IsPrefix(ReportIndices, <<0, 1, 2, 3>>)
    /\ \A k \in Printed("Future i callback executed") :
          log[k].at = Began + Operations[log[k].a + 1].delay
    /\ \A k \in Printed("Future i: result") \cup Printed("Future i failed") :
          /\ \E j \in Printed("Future i callback executed") :
                j < k /\ log[j].a = log[k].a
          /\ log[k].at = Began + <<20, 40, 40, 70>>[log[k].a + 1]
    /\ (entry = "multiple_futures_example" /\ phase = "closed") =>
          /\ now = 70
          /\ Len(ReportIndices) = 4 /\ Len(CallbackIndices) = 4

\* A run of multiple_futures_example alone is over: four callbacks, then
\* the fourth report.
C26_Witness ==
    /\ entry = "multiple_futures_example" /\ phase = "closed"
    /\ CallbackIndices = <<2, 0, 1, 3>>
    /\ ReportIndices = <<0, 1, 2, 3>>

\* ----------------------------------------------------------------- C27
\* C27: the exception set on future 2 of multiple_futures_example one
\* time unit after the start stays in the future until the loop gets to
\* await it, after futures 0 and 1, four time units after the start: it
\* is raised only at that await, which takes it without suspending (the
\* example's task is not made to wait on future 2) and catches it; the
\* futures 0, 1 and 3 deliver their results.
C27_StoredExceptionRaisedAtItsAwait ==
    /\ [](/\ \A fr \in FramesOf("multiple_futures_example") :
               /\ (Len(fr.fs) > 2 /\ now >= Began + 10
                        /\ (now > Began + 10 \/ Done(St, fr.fs[3]))) =>
                     /\ futs[fr.fs[3]].state = "FINISHED"
                     /\ futs[fr.fs[3]].exc = "RuntimeError"
                     /\ futs[fr.fs[3]].at = Began + 10
               /\ \A t \in 1..Len(tasks) :
                     Len(fr.fs) > 2 => tasks[t].waiter # fr.fs[3]
               /\ \A t \in 1..Len(tasks) :
                     (tasks[t].exc = "RuntimeError") =>
                         /\ fr.i = 2 /\ fr.pc = "await"
                         /\ now = Began + 40
               /\ fr.pc = "except" => fr.i = 2 /\ fr.pend = "RuntimeError"
          /\ \A k \in Printed("Future i failed") :
                /\ log[k].a = 2 /\ log[k].v = "RuntimeError"
                /\ log[k].at = Began + 40
                /\ \E j \in Printed("Future i: result") : j = k - 1 /\ log[j].a = 1
          /\ \A k \in Printed("Future i: result") :
                /\ log[k].a \in {0, 1, 3}
                /\ log[k].v = <<"Operation succeeded",
                                "Operation completed with data: custom_data",
                                "",
                                "Operation completed with data: another_success">>
                                  [log[k].a + 1]
          /\ futs[1].exc # "RuntimeError")
    /\ [][\A t \in 1..Len(tasks) :
              (tasks[t].exc # "RuntimeError" /\ tasks'[t].exc = "RuntimeError") =>
                  cur = t /\ cur' = t]_vars

\* Future 2 failed at one time unit and was reported at four, after the
\* results of futures 0 and 1 and before the result of future 3.
C27_Witness ==
    /\ entry = "multiple_futures_example" /\ phase = "closed"
    /\ \E k \in Printed("Future i failed") :
          /\ log[k].a = 2 /\ log[k].at = 40
          /\ \E j \in Printed("Future i callback executed") :
                log[j].a = 2 /\ log[j].at = 10 /\ j < k
    /\ [k \in 1..Len(Lines({"Future i: result"})) |->
           Lines({"Future i: result"})[k].a] = <<0, 1, 3>>

\* ----------------------------------------------------------------- C28
\* The frames of the producers that are to resolve future f.
ProducersOf(f) == {fr \in FramesOf("async_operation") : fr.f = f}

\* C28: in the runs of 09 set_result and set_exception are only ever
\* called on a pending Future: a producer about to call them finds its
\* Future pending, and InvalidStateError is raised nowhere.  In
\* future_with_timeout_example the timeout comes 3 time units after the
\* start and cancels the Future; the producer, asleep until 6, is asked
\* to cancel in the step that reports the timeout, is gone by the end of
\* the next pass, and never gets past its sleep.
C28_NoSetOnTerminalFuture ==
    /\ \A t \in 1..Len(tasks) : tasks[t].exc # "InvalidStateError"
    /\ \A f \in 1..Len(futs) : futs[f].exc # "InvalidStateError"
    /\ Printed("callback raised InvalidStateError") = {}
    /\ \A fr \in FramesOf("async_operation") :
          fr.pc = "set" => futs[fr.f].state = "PENDING"
    /\ \A k \in Printed("Operation timed out!") :
          /\ \E b \in Printed("=== Future with Timeout Example ===") :
                log[k].at = log[b].at + Timeout
          /\ futs[log[k].a].state = "CANCELLED"
          /\ \A p \in FramePlaces :
                LET fr == tasks[p[1]].stack[p[2]]
                IN  fr \in ProducersOf(log[k].a) =>
                       /\ fr.pc = "sleep"
                       /\ tasks[p[1]].ncancel >= 1
          /\ (cur = 0 /\ ready = <<>>) => ProducersOf(log[k].a) = {}

\* Inside main the timeout has been reported, the producer is gone with
\* its task cancelled, and the loop has gone on; or the run of the example
\* alone has ended.
C28_Witness ==
    \E k \in Printed("Operation timed out!") :
        /\ ProducersOf(log[k].a) = {}
        /\ futs[log[k].a].state = "CANCELLED"
        /\ \E t \in Producers : futs[tasks[t].fut].state = "CANCELLED"
        /\ \/ entry = "main" /\ now > log[k].at
           \/ entry = "future_with_timeout_example" /\ phase = "closed"

\* ----------------------------------------------------------------- C29
\* C29: task.cancel() on a producer of 09 does not stop the task inside the
\* call: after the call the task is as it was, suspended in its sleep with
\* its own future pending.  The cancellation reaches it when the loop next
\* runs it: that step throws CancelledError into it at the sleep, and a
\* task that was asked to cancel never gets to the statement after its
\* sleep and ends cancelled.
C29_CancelTakesEffectAtTheNextStep ==
    /\ [][\A t \in Producers :
              /\ (t <= Len(tasks) /\ tasks'[t].ncancel > tasks[t].ncancel) =>
                    /\ cur # t
                    /\ tasks[t].stack # <<>>
                    /\ tasks'[t].stack = tasks[t].stack
                    /\ tasks'[t].stack[Len(tasks'[t].stack)].fn = "sleep"
                    /\ futs'[tasks[t].fut].state = "PENDING"
              /\ (t <= Len(tasks) /\ tasks[t].ncancel >= 1
                     /\ cur # t /\ cur' = t) =>
                    /\ tasks'[t].exc = "CancelledError"
                    /\ tasks'[t].stack = tasks[t].stack]_vars
    /\ [](\A t \in Producers :
             tasks[t].ncancel >= 1 =>
                /\ \A d \in 1..Len(tasks[t].stack) :
                       tasks[t].stack[d].fn = "async_operation" =>
                           tasks[t].stack[d].pc = "sleep"
                /\ tasks[t].stack = <<>> =>
                       futs[tasks[t].fut].state = "CANCELLED")

\* cancellation_example has called task.cancel() and gone on to its await:
\* the producer is still suspended in its sleep, not yet run again.
C29_Witness ==
    \E k \in Printed("Cancelling the future..."), t \in Producers :
        /\ tasks[t].ncancel = 1
        /\ Len(tasks[t].stack) = 2
        /\ tasks[t].stack[2].fn = "sleep"
        /\ tasks[t].stack[1].f = log[k].a
        /\ futs[tasks[t].fut].state = "PENDING"
        /\ \E fr \in FramesOf("cancellation_example") : fr.pc = "await"

\* ----------------------------------------------------------------- C30
\* The loop time at which future_state_monitoring began.
MonitoringBegan ==
    log[CHOOSE k \in Printed("=== Future State Monitoring ===") : TRUE].at

\* C30: in future_state_monitoring the fresh Future reports done() False
\* and cancelled() False; the polling loop finds it pending at most four
\* times, 0.3 time units apart, and comes to an end; when it has ended the
\* Future is done, resolved and not cancelled, and result() gives
\* 'Operation completed with data: monitored_result' and raises nothing.
C30_MonitoringLoopEndsWithTheResult ==
    /\ [](/\ \A k \in Printed("=== Future State Monitoring ===") :
               /\ Len(log) > k =>
                     log[k + 1].ev = "Future done" /\ log[k + 1].v = "False"
               /\ Len(log) > k + 1 =>
                     /\ log[k + 2].ev = "Future cancelled"
                     /\ log[k + 2].v = "False"
          /\ Cardinality(Printed("Future still pending...")) <= 4
          /\ \A k \in Printed("Future still pending...") :
                \E n \in 0..3 : log[k].at = MonitoringBegan + n * PollDelay
          /\ \A p \in FramePlaces :
                LET fr == tasks[p[1]].stack[p[2]]
                IN  fr.fn = "future_state_monitoring" =>
                       /\ tasks[p[1]].exc = ""
                       /\ fr.pc \in {"done", "return"} =>
                             /\ futs[fr.f].state = "FINISHED"
                             /\ futs[fr.f].exc = ""
                             /\ futs[fr.f].result =
                                   "Operation completed with data: monitored_result"
                             /\ now = MonitoringBegan + 4 * PollDelay
                       /\ fr.pc = "return" =>
                             /\ log[Len(log)].ev = "Result"
                             /\ log[Len(log)].v = futs[fr.f].result
                             /\ log[Len(log) - 1].ev = "Future done"
                             /\ log[Len(log) - 1].v = "True")
    /\ (entry \in {"main", "future_state_monitoring"}) =>
          <>(\E k \in Printed("Result") :
                log[k].v = "Operation completed with data: monitored_result")

\* A run of future_state_monitoring alone is over: four polls, then the
\* result, 1.2 time units after the start.
C30_Witness ==
    /\ entry = "future_state_monitoring" /\ phase = "closed"
    /\ Cardinality(Printed("Future still pending...")) = 4
    /\ \E k \in Printed("Result") :
          /\ log[k].v = "Operation completed with data: monitored_result"
          /\ log[k].at = 4 * PollDelay
          /\ log[k - 1].ev = "Future done" /\ log[k - 1].v = "True"

\* ----------------------------------------------------------------- C24
\* The requests a run has taken.
Requests == {log[k].a : k \in Printed("response sent")}

ShortJob(r) == <<"short-1", "short-2", "short-3">>[r]

LongJob(r) == <<"long-1", "long-2", "long-3">>[r]

\* C24: the two background jobs of a POST /start-jobs run simultaneously:
\* the long job starts when the short job starts, without waiting for it to
\* finish, so that the short job completes 3 and the long job 6 time units
\* after the jobs began.
C24_JobsRunSimultaneously ==
    \A r \in Requests :
        LET began == PrintedAt("Starting background_job", ShortJob(r))
        IN  began >= 0 =>
              /\ PrintedAt("Finished background_job", ShortJob(r)) >= 0 =>
                    /\ PrintedAt("Finished background_job", ShortJob(r))
                          = began + 30
                    /\ PrintedAt("Starting background_job", LongJob(r)) >= 0
              /\ PrintedAt("Starting background_job", LongJob(r)) >= 0 =>
                    PrintedAt("Starting background_job", LongJob(r)) = began
              /\ PrintedAt("Finished background_job", LongJob(r)) >= 0 =>
                    PrintedAt("Finished background_job", LongJob(r))
                      = began + 60

\* ----------------------------------------------------------------- C23
\* C23: slow_calculation called with 15 iterations is interrupted by the
\* soft time limit before its loop has finished: it never returns
\* 'completed' and is never killed by the hard limit; its result has the
\* status 'timeout_exceeded', fewer than 15 completed iterations, and is
\* stored at the soft limit (as late as the worker delivers it), before the
\* hard limit; the polling loop of demo_slow_task comes to an end and
\* task.get() returns that result.
C23_SoftLimitEndsTheSlowTask ==
    /\ []((entry = "demo_slow_task" /\ cfg.jobs = 15) =>
            /\ futs[1].status \notin {"completed", "TimeLimitExceeded"}
            /\ threads[1].state # "killed"
            /\ Printed("Slow task completed") = {}
            /\ threads[1].i < cfg.jobs
            /\ futs[1].state = "SUCCESS" =>
                  /\ futs[1].status = "timeout_exceeded"
                  /\ futs[1].completed < cfg.jobs
                  /\ futs[1].duration = SoftTimeLimit + cfg.skew
                  /\ futs[1].duration < TimeLimit
            /\ tasks[1].pc # "raised"
            /\ tasks[1].pc = "done" =>
                  /\ log[Len(log)].ev = "Final Status"
                  /\ log[Len(log)].v = "timeout_exceeded")
    /\ (entry = "demo_slow_task" /\ cfg.jobs = 15) => <>(tasks[1].pc = "done")

\* demo_slow_task has read the result of its 15-iteration task: the soft
\* limit came during the thirteenth iteration, ten seconds after the start.
C23_Witness ==
    /\ entry = "demo_slow_task" /\ cfg.jobs = 15 /\ cfg.skew = 0
    /\ tasks[1].pc = "done"
    /\ futs[1].status = "timeout_exceeded"
    /\ futs[1].completed = 12
    /\ futs[1].duration = SoftTimeLimit
    /\ \E k \in Printed("Final Status") : log[k].v = "timeout_exceeded"

\* ----------------------------------------------------------------- C31
\* The lines that show what a result() call of the client gave: the value
\* it returned, or the exception it raised.
ResultReads ==
    {k \in 2..Len(log) :
        log[k - 1].ev = "result()" /\ log[k].ev \in {"returned", "raised"}}

\* C31: reading a terminal Future neither consumes nor changes it.  A
\* result() call changes no future; every read of a terminal Future gives
\* what is stored (the value returned, the stored exception or
\* CancelledError raised), so that any two reads made after the Future
\* became terminal agree; and in basic_future_example the main computation
\* and future_callback read the same value.
C31_ReadsDoNotConsume ==
    /\ [][Called("result()") => futs' = futs]_vars
    /\ [](/\ \A k \in ResultReads :
                LET f == log[k].a
                IN  \/ log[k].ev = "raised" /\ log[k].v = "InvalidStateError"
                    \/ log[k].ev = "raised" /\ Threw(f, log[k].v)
                    \/ log[k].ev = "returned" /\ Returned(f, log[k].v)
          /\ \A j, k \in ResultReads :
                (j < k /\ log[j].v # "InvalidStateError") =>
                    log[k].ev = log[j].ev /\ log[k].v = log[j].v
          /\ \A j \in Printed("Main thread - Result"),
                k \in Printed("Callback executed - Result") :
                log[j].a = log[k].a =>
                    /\ log[j].v = log[k].v
                    /\ Returned(log[j].a, log[j].v))

\* The client has read the resolved Future twice and got the same value
\* both times.
C31_Witness ==
    \E j, k \in ResultReads :
        /\ j < k
        /\ log[j].ev = "returned" /\ log[k].ev = "returned"
        /\ log[j].v = log[k].v /\ log[j].v # NoValue
        /\ futs[log[k].a].result = log[k].v

\* ----------------------------------------------------------------- C32
\* The lines that end a fetch: its page has arrived, or its error has been
\* handled.
FetchEnded == Printed("Completed fetch") \cup Printed("Error fetching")

\* C32: in main of 05 the session is closed once, and only when no fetch
\* is in flight.  The session is open before a fetch starts; when it is
\* closed each of the three fetches has started and has ended (with its
\* page or with its handled error) and no fetch_async is left running; it
\* is never closed twice, and it has been closed when the run is over.
C32_SessionOutlivesEveryFetch ==
    /\ Cardinality(Printed("session closed")) <= 1
    /\ \A j \in Printed("Starting to fetch") :
          PrintedBefore("ClientSession()", j)
    /\ \A k \in Printed("session closed") :
          /\ Cardinality({j \in Printed("Starting to fetch") : j < k}) = 3
          /\ Cardinality({j \in FetchEnded : j < k}) = 3
          /\ \A j \in Printed("Starting to fetch") \cup FetchEnded : j < k
          /\ FramesOf("fetch_async") = {}
    /\ (entry = "web_main" /\ Printed("asyncio.run returned") # {}) =>
          Printed("session closed") # {}

\* The session has been closed after three fetches that ended at two
\* different times, one of them with an error.
C32_Witness ==
    /\ Printed("session closed") # {}
    /\ Printed("Error fetching") # {}
    /\ \E j, k \in Printed("Completed fetch") : log[j].at < log[k].at

\* ----------------------------------------------------------------- C33
\* Input `name` of fetch_async or read_file_async gave a content: its
\* "Completed ..." line is in the log.
Succeeded(name) ==
    \E k \in Printed("Completed fetch") \cup Printed("Completed reading") :
        log[k].v = name

\* C33: results stay paired with their inputs.  Every pair (filepath,
\* content) that read_all_async of 07 puts in its list, and every line that
\* main of 05 reports for a URL, holds the content that the read of that
\* file or the fetch of that URL returned, and that read or fetch
\* succeeded; no input is reported twice.
C33_ResultsPairedWithInputs ==
    /\ \A k \in Printed("pair") \cup Printed("Fetched") :
          /\ log[k].v = "content of " \o log[k].a
          /\ Succeeded(log[k].a)
    /\ \A j, k \in Printed("pair") \cup Printed("Fetched") :
          log[j].a = log[k].a => j = k

\* main of 05 has reported the second URL, whose fetch completed before
\* that of the first URL, while another fetch failed.
C33_Witness ==
    /\ \E k \in Printed("Fetched") : log[k].a = "http://example.org"
    /\ \E j, k \in Printed("Completed fetch") :
          /\ log[j].v = "http://example.org" /\ log[k].v = "http://example.com"
          /\ log[j].at < log[k].at
    /\ Printed("Error fetching") # {}

\* ----------------------------------------------------------------- C34
\* C34: a failing fetch never fails the gather of 05.  Whatever fetches
\* fail, the gather never holds an exception and no fetch task ends with
\* one or is cancelled; when the gather is done its list has one entry per
\* URL, None exactly for the URLs whose error was handled; asyncio.run
\* never raises; and main reaches its report.
C34_FailingFetchNeverFailsTheGather ==
    /\ [](entry = "web_main" =>
            /\ Printed("asyncio.run raised") = {}
            /\ \A t \in 1..Len(tasks) :
                  /\ tasks[t].ncancel = 0
                  /\ futs[tasks[t].fut].exc = ""
                  /\ futs[tasks[t].fut].state # "CANCELLED"
            /\ \A g \in GatherFutures :
                  /\ futs[g].exc = "" /\ futs[g].state # "CANCELLED"
                  /\ futs[g].state = "FINISHED" =>
                        /\ Len(futs[g].results) = 3
                        /\ \A i \in 1..3 :
                              LET url == <<"http://example.com",
                                           "http://example.org",
                                           "http://httpbin.org/get">>[i]
                              IN  (futs[g].results[i] = NoValue) <=>
                                    (\E k \in Printed("Error fetching") :
                                        log[k].v = url))
    /\ (entry = "web_main" => <>(Printed("Results:") # {}))

\* main of 05 has reached its report after a run in which one fetch failed
\* and the two others gave their pages.
C34_Witness ==
    /\ Printed("Results:") # {}
    /\ Cardinality(Printed("Error fetching")) = 1
    /\ Cardinality(Printed("Fetched")) = 2

\* ----------------------------------------------------------------- C35
\* The lines of the synchronous programs that start an item and that end
\* one (with its content or with its handled error).
SyncStarted == Printed("Starting to fetch") \cup Printed("Starting to read")

SyncEnded ==
    Printed("Completed fetch") \cup Printed("Error fetching")
      \cup Printed("Completed reading") \cup Printed("Error reading")

\* The position of the item called `name` in the list of inputs.
InputIndex(name) ==
    CHOOSE i \in 1..Len(tasks[1].data) : tasks[1].data[i] = name

\* C35: the synchronous versions work on one item at a time, in input
\* order.  An item starts only when every item started before it has
\* ended, so at most one is in progress; the j-th item started is the j-th
\* input; the results are in input order; the program never stops on a
\* failing item, and it ends having started and ended every item.
C35_SyncItemsOneAtATimeInOrder ==
    /\ [](/\ \A k \in SyncStarted :
                /\ Cardinality({j \in SyncEnded : j < k})
                     = Cardinality({j \in SyncStarted : j < k})
                /\ log[k].v = tasks[1].data[
                       1 + Cardinality({j \in SyncStarted : j < k})]
          /\ Cardinality(SyncStarted) - Cardinality(SyncEnded) \in {0, 1}
          /\ \A k \in SyncEnded :
                \E j \in SyncStarted :
                    /\ j < k /\ log[j].v = log[k].v /\ log[j].at < log[k].at
                    /\ \A m \in SyncStarted \cup SyncEnded : ~(j < m /\ m < k)
          /\ \A j, k \in 1..Len(tasks[1].results) :
                j < k => InputIndex(tasks[1].results[j][1])
                           < InputIndex(tasks[1].results[k][1])
          /\ tasks[1].pc # "raised"
          /\ tasks[1].pc = "done" =>
                /\ Cardinality(SyncStarted) = Len(tasks[1].data)
                /\ Cardinality(SyncEnded) = Len(tasks[1].data))
    /\ <>(tasks[1].pc = "done")

\* The first item failed, and the two items after it have been read or
\* fetched and are in the results, in input order.
C35_Witness ==
    /\ tasks[1].pc = "done"
    /\ \E k \in Printed("Error fetching") \cup Printed("Error reading") :
          log[k].v = tasks[1].data[1]
    /\ Len(tasks[1].results) = 2
    /\ tasks[1].results[1][1] = tasks[1].data[2]
    /\ tasks[1].results[2][1] = tasks[1].data[3]


\* ----------------------------------------------------------------- C36
\* The names of the items whose fetch or read has been started.
ItemsStarted ==
    {log[k].v : k \in Printed("Starting to fetch")
                        \cup Printed("Starting to read")}

\* The program has built its results: main of 04 and of 05 have printed
\* their report, read_all_sync and read_all_async have returned.
ResultsBuilt ==
    \/ Printed("Done in") # {}
    \/ Printed("read_all_sync returned") # {}
    \/ entry = "read_all_async" /\ Printed("asyncio.run returned") # {}

\* C36: every item whose fetch or read completed without an error has
\* exactly one entry in the results, and only the failed items have none,
\* an empty content included.
C36_EverySuccessfulItemHasOneEntry ==
    ResultsBuilt =>
        \A name \in ItemsStarted :
            Cardinality({k \in Printed("pair") \cup Printed("Fetched") :
                            log[k].a = name})
              = IF Succeeded(name) THEN 1 ELSE 0


\* ----------------------------------------------------------------- C37
\* C37: when slow_calculation returns 'timeout_exceeded', its 'result' is
\* the sum accumulated over exactly 'completed_iterations' iterations.
C37_TimeoutResultAgreesWithIterations ==
    (entry = "demo_slow_task" /\ futs[1].status = "timeout_exceeded") =>
        futs[1].result = futs[1].completed * SumOfSquares


\* ----------------------------------------------------------------- C38
\* The lines of demonstrate_executor_types that submit a job to `pool`.
SubmittedTo(pool) ==
    {k \in Printed("run_in_executor") : log[k].a = pool}

\* C38: in demonstrate_executor_types the process-backed job is submitted
\* only after the result of the thread-backed job has been received; a
\* pool is shut down only after the job submitted to it has completed (its
\* result has been received and none of its jobs is queued or running),
\* and once; and no job is submitted to a pool after its shutdown.
C38_PoolsUsedOneAfterTheOther ==
    /\ \A k \in SubmittedTo("process_executor") :
          /\ PrintedBefore("Thread executor result", k)
          /\ \E j \in Printed("shutdown") :
                j < k /\ log[j].a = "thread_executor"
    /\ \A k \in Printed("shutdown") :
          /\ \E j \in SubmittedTo(log[k].a) : j < k
          /\ \E j \in Printed("Thread executor result")
                        \cup Printed("Process executor result") :
                j < k /\ threads[log[j].a].pool = log[k].a
          /\ \A j \in SubmittedTo(log[k].a) : j < k
          /\ \A j \in Printed("shutdown") : log[j].a = log[k].a => j = k
          /\ \A th \in 1..Len(threads) :
                threads[th].pool = log[k].a => threads[th].state = "done"
    /\ \A th \in 1..Len(threads) :
          (entry = "demonstrate_executor_types"
             /\ threads[th].pool = "process_executor") =>
              \E t2 \in 1..Len(threads) :
                  /\ threads[t2].pool = "thread_executor"
                  /\ threads[t2].state = "done"
                  /\ th > t2

\* Both pools have been shut down, the process-backed one after a job that
\* took some time.
C38_Witness ==
    /\ \E k \in Printed("shutdown") : log[k].a = "process_executor"
    /\ \E k \in Printed("shutdown") : log[k].a = "thread_executor"
    /\ \E j \in Printed("Process executor result") :
          log[j].at > 10 /\ log[j].v = "333328333350000"


====
